---- MODULE Spec2Model ----
(***************************************************************************)
(* A model of the caret curation engine: the dataset layer (data.rs), the  *)
(* deduplication engine (engine.rs), the repairer (fixer.rs) and the       *)
(* validator (linter.rs).  Bytes are integers 0..255, byte strings are     *)
(* sequences of bytes, and 64-bit words are four 16-bit limbs, least       *)
(* significant first, so that FNV-1a keeps its width.                      *)
(***************************************************************************)
EXTENDS Integers, Sequences, FiniteSets, TLC

VARIABLES
    ds_bytes,     \* Dataset.storage: the bytes of the source
    ds_offsets,   \* Dataset.line_offsets
    ds_pc,        \* "closed" before Dataset::open, "open" after
    ds_index,     \* the index of the last get_line call
    ds_line       \* the Option<&str> the last get_line call returned

ds_vars == <<ds_bytes, ds_offsets, ds_pc, ds_index, ds_line>>

VARIABLES
    dd_lines,     \* the records the source was written from (terminators excluded)
    dd_bytes,     \* the bytes of the scanned Dataset
    dd_offsets,   \* its line_offsets
    dd_strategy,  \* DedupEngine.strategy
    dd_pc,        \* where DedupEngine::scan stands: "phase1", "phase2", "counting", "done"
    dd_taken,     \* phase 1: the indices whose closure has run on some worker
    dd_fps,       \* fingerprints, by slot; NoFp where nothing was written yet
    dd_i,         \* phase 2: the loop index
    dd_dup,       \* duplicates: the set bits of the BitMask
    dd_canon,     \* canonical_map
    dd_seen,      \* exact mode: the HashMap from fingerprint to first index
    dd_unique,    \* similarity mode: unique_fps
    dd_result     \* the counts of the DedupResult

dd_vars == <<dd_lines, dd_bytes, dd_offsets, dd_strategy, dd_pc, dd_taken, dd_fps,
             dd_i, dd_dup, dd_canon, dd_seen, dd_unique, dd_result>>

VARIABLES
    ex_value,     \* the JSON value a record was written from
    ex_input,     \* the bytes of the record handed to extract_content_bytes
    ex_pc,        \* "ready" before the call, "done" after
    ex_output     \* the Vec<u8> it returned

ex_vars == <<ex_value, ex_input, ex_pc, ex_output>>

VARIABLES
    fx_line,            \* the line handed to fix_line and to lint_line
    fx_preserve_order,  \* whether the Map of serde_json keeps insertion order
    fx_required_keys,   \* Linter.required_keys
    fx_first,           \* the FixResult of fix_line(line), NoFixResult before the call
    fx_second,          \* the FixResult of fix_line on the bytes of the first result
    fx_linted,          \* whether lint_line has run
    fx_lint,            \* the Vec<LintResult> of lint_line
    fx_line_num         \* the line_num handed to lint_line

fx_vars == <<fx_line, fx_preserve_order, fx_required_keys, fx_first, fx_second, fx_linted, fx_lint,
             fx_line_num>>

VARIABLES
    rpc_dataset,  \* McpState.dataset: the snapshot the server reads
    rpc_req,      \* the JsonRpcRequest of every client
    rpc_pc,       \* where the handler of every client stands
    rpc_join,     \* what the blocking task of every client handed back
    rpc_resp,     \* the responses written to every client
    rpc_order,    \* the clients in the order their responses were written
    rpc_panicked  \* history: the clients whose closure panicked on the blocking pool

rpc_vars == <<rpc_dataset, rpc_req, rpc_pc, rpc_join, rpc_resp, rpc_order, rpc_panicked>>

VARIABLES
    st_meta,         \* RemoteParquetMeta.row_groups of the remote file
    st_file_size,    \* HfStreamReader.file_size
    st_pc,           \* where open_hf_stream stands: "start", "fetching", "done"
    st_i,            \* the row-group open_hf_stream fetches next
    st_all_lines,    \* all_lines
    st_result,       \* what open_hf_stream returned
    st_ranges,       \* history: the byte ranges asked of the server
    st_read_failed   \* history: whether a range read of a row-group failed

st_vars == <<st_meta, st_file_size, st_pc, st_i, st_all_lines, st_result, st_ranges, st_read_failed>>

VARIABLES
    cb_channel,    \* the commands in the unbounded channel, oldest first
    cb_app,        \* the view state of App that commands and keys change
    cb_pc,         \* where run_tui_loop stands: "drain", "render", "poll", "done"
    cb_sent,       \* history: every command a send accepted, in the order of the sends
    cb_applied,    \* history: every command apply_tui_command was called with, in order
    cb_tick_sent   \* history: how many commands had been sent when the drain of this tick began

cb_vars == <<cb_channel, cb_app, cb_pc, cb_sent, cb_applied, cb_tick_sent>>

VARIABLES
    bf_source,        \* the bytes of the input file when the run starts
    bf_in_place,      \* args.fix_in_place
    bf_skip_invalid,  \* args.skip_invalid
    bf_pc,            \* where run_fix_mode stands: "create", "records", "flush", "rename", "done"
    bf_i,             \* the record the loop handles next
    bf_temp,          \* the bytes written to temp_path
    bf_original,      \* the bytes at the path of the input file
    bf_result,        \* "running", "ok" or "err": what run_fix_mode returned
    bf_written,       \* history: every writeln that succeeded, with the record it was for
    bf_io_error,      \* history: the file operation that failed, "none" if none did
    bf_flushed,       \* history: whether writer.flush() succeeded
    bf_renamed        \* history: whether the rename was performed

bf_vars == <<bf_source, bf_in_place, bf_skip_invalid, bf_pc, bf_i, bf_temp, bf_original, bf_result, bf_written, bf_io_error, bf_flushed, bf_renamed>>

VARIABLES
    tk_dataset,   \* McpState.dataset: the snapshot the closure holds an Arc of
    tk_req,       \* the tools/call request of the task
    tk_request,   \* the request task: "received", "awaiting", "responded", "dropped"
    tk_worker,    \* the closure on the blocking pool: "none", "queued", "running", "finished"
    tk_join,      \* what the closure returned
    tk_resp,      \* the responses the request task wrote
    tk_dropped_at \* the state of the closure when the request task was dropped

tk_vars == <<tk_dataset, tk_req, tk_request, tk_worker, tk_join, tk_resp, tk_dropped_at>>

VARIABLES
    inc_meta,          \* RemoteParquetMeta.row_groups of the remote file
    inc_file_size,     \* HfStreamReader.file_size
    inc_pc,            \* where start() stands: "start", "fetch", "store", "spawn", "returned", "failed"
    inc_bg,            \* the background task: "none", "fetch", "store", "finish", "done"
    inc_i,             \* the row-group the background task is at
    inc_lines,         \* IncrementalStream.lines
    inc_loaded,        \* IncrementalStream.loaded_row_groups
    inc_complete,      \* IncrementalStream.complete
    inc_appended,      \* history: the row-groups whose records were appended to lines
    inc_seen_loaded,   \* the last loaded_count() of the polling reader
    inc_seen_lines     \* the lines the polling reader last read under the lock

inc_vars == <<inc_meta, inc_file_size, inc_pc, inc_bg, inc_i, inc_lines, inc_loaded, inc_complete, inc_appended, inc_seen_loaded, inc_seen_lines>>

VARIABLES
    nav_app,              \* the App the commands are applied to
    nav_overflow_checks,  \* whether the build checks integer overflow (debug) or wraps (release)
    nav_cmd,              \* the command applied last
    nav_panicked,         \* a command panicked
    nav_wrapped           \* history: an addition of a command wrapped around

nav_vars == <<nav_app, nav_overflow_checks, nav_cmd, nav_panicked, nav_wrapped>>

vars == <<ds_vars, dd_vars, ex_vars, fx_vars, rpc_vars, st_vars, cb_vars, bf_vars, tk_vars, inc_vars, nav_vars>>

\* what the actions of one subsystem leave alone: the variables of the others
not_ds == <<dd_vars, ex_vars, fx_vars, rpc_vars, st_vars, cb_vars, bf_vars, tk_vars, inc_vars, nav_vars>>
not_dd == <<ds_vars, ex_vars, fx_vars, rpc_vars, st_vars, cb_vars, bf_vars, tk_vars, inc_vars, nav_vars>>
not_ex == <<ds_vars, dd_vars, fx_vars, rpc_vars, st_vars, cb_vars, bf_vars, tk_vars, inc_vars, nav_vars>>
not_fx == <<ds_vars, dd_vars, ex_vars, rpc_vars, st_vars, cb_vars, bf_vars, tk_vars, inc_vars, nav_vars>>
not_rpc == <<ds_vars, dd_vars, ex_vars, fx_vars, st_vars, cb_vars, bf_vars, tk_vars, inc_vars, nav_vars>>
not_st == <<ds_vars, dd_vars, ex_vars, fx_vars, rpc_vars, cb_vars, bf_vars, tk_vars, inc_vars, nav_vars>>
not_cb == <<ds_vars, dd_vars, ex_vars, fx_vars, rpc_vars, st_vars, bf_vars, tk_vars, inc_vars, nav_vars>>
not_bf == <<ds_vars, dd_vars, ex_vars, fx_vars, rpc_vars, st_vars, cb_vars, tk_vars, inc_vars, nav_vars>>
not_tk == <<ds_vars, dd_vars, ex_vars, fx_vars, rpc_vars, st_vars, cb_vars, bf_vars, inc_vars, nav_vars>>
not_inc == <<ds_vars, dd_vars, ex_vars, fx_vars, rpc_vars, st_vars, cb_vars, bf_vars, tk_vars, nav_vars>>
not_nav == <<ds_vars, dd_vars, ex_vars, fx_vars, rpc_vars, st_vars, cb_vars, bf_vars, tk_vars, inc_vars>>

(***************************************************************************)
(* Bounds of the model.                                                    *)
(***************************************************************************)
MaxLen == 4          \* longest byte source of the dataset specification
MaxRecords == 4      \* most records of a scanned dataset
MaxDepth == 2        \* deepest nesting of a generated JSON record

(***************************************************************************)
(* Bytes the code names.                                                   *)
(***************************************************************************)
Newline == 10        \* b'\n'
Quote == 34          \* b'"'
Backslash == 92      \* b'\\'
Colon == 58          \* b':'
Comma == 44          \* b','
RBrace == 125        \* b'}'
RBracket == 93       \* b']'
Space == 32          \* b' '

(***************************************************************************)
(* Sequence helpers.                                                       *)
(***************************************************************************)
Slice(s, from, to) == [k \in 1..(to - from) |-> s[from + k]]  \* s[from..to), 0-based

Min2(a, b) == IF a <= b THEN a ELSE b

RECURSIVE SeqsUpTo(_, _)
SeqsUpTo(S, n) ==
    IF n = 0 THEN {<<>>}
    ELSE LET shorter == SeqsUpTo(S, n - 1)
         IN  shorter \cup {Append(s, x) : s \in {t \in shorter : Len(t) = n - 1}, x \in S}

(***************************************************************************)
(* std::str::from_utf8: whether a byte string is well-formed UTF-8.        *)
(***************************************************************************)
IsCont(b) == b >= 128 /\ b <= 191

RECURSIVE Utf8Valid(_)
Utf8Valid(s) ==
    IF Len(s) = 0 THEN TRUE
    ELSE LET b == s[1]
             n == Len(s)
             rest(k) == Slice(s, k, n)
         IN  IF b < 128 THEN Utf8Valid(rest(1))
             ELSE IF b >= 194 /\ b <= 223
                  THEN n >= 2 /\ IsCont(s[2]) /\ Utf8Valid(rest(2))
             ELSE IF b >= 224 /\ b <= 239
                  THEN /\ n >= 3
                       /\ IsCont(s[2]) /\ IsCont(s[3])
                       /\ (b = 224 => s[2] >= 160)
                       /\ (b = 237 => s[2] <= 159)
                       /\ Utf8Valid(rest(3))
             ELSE IF b >= 240 /\ b <= 244
                  THEN /\ n >= 4
                       /\ IsCont(s[2]) /\ IsCont(s[3]) /\ IsCont(s[4])
                       /\ (b = 240 => s[2] >= 144)
                       /\ (b = 244 => s[2] <= 143)
                       /\ Utf8Valid(rest(4))
             ELSE FALSE

(***************************************************************************)
(* Dataset: the line index and get_line.                                   *)
(***************************************************************************)
None == [some |-> FALSE, s |-> <<>>]
Some(s) == [some |-> TRUE, s |-> s]

\* The loop of open_jsonl: the offsets pushed from byte i (0-based) on.
RECURSIVE line_offsets_from(_, _)
line_offsets_from(data, i) ==
    IF i >= Len(data) THEN <<>>
    ELSE (IF data[i + 1] = Newline /\ i + 1 < Len(data) THEN <<i + 1>> ELSE <<>>)
         \o line_offsets_from(data, i + 1)

\* the 0-based positions after every newline of data from byte i on
RECURSIVE after_every_newline(_, _)
after_every_newline(data, i) ==
    IF i >= Len(data) THEN <<>>
    ELSE (IF data[i + 1] = Newline THEN <<i + 1>> ELSE <<>>) \o after_every_newline(data, i + 1)

\* A mutant of line_offsets: a newline that ends the source starts a record too.
line_offsets_every_newline(data) == <<0>> \o after_every_newline(data, 0)

line_offsets(data) == <<0>> \o line_offsets_from(data, 0)

line_count(offsets) == Len(offsets)

\* A mutant of get_line: the last record ends at the end of the source less one.
get_line_short(data, offsets, index) ==
    IF index >= Len(offsets) THEN None
    ELSE LET start == offsets[index + 1]
             end0  == IF index + 1 < Len(offsets)
                      THEN offsets[index + 2] - 1
                      ELSE Len(data) - 1
             end   == Min2(end0, Len(data))
         IN  IF start >= end THEN Some(<<>>)
             ELSE IF Utf8Valid(Slice(data, start, end))
                  THEN Some(Slice(data, start, end))
                  ELSE None

get_line(data, offsets, index) ==
    IF index >= Len(offsets) THEN None
    ELSE LET start == offsets[index + 1]
             end0  == IF index + 1 < Len(offsets)
                      THEN offsets[index + 2] - 1
                      ELSE Len(data)
             end   == Min2(end0, Len(data))
         IN  IF start >= end THEN Some(<<>>)
             ELSE IF Utf8Valid(Slice(data, start, end))
                  THEN Some(Slice(data, start, end))
                  ELSE None

(***************************************************************************)
(* The dataset specification: a byte source is opened, then read by index. *)
(***************************************************************************)
DataBytes == {Newline, 97, 195, 169}     \* '\n', 'a', and the two bytes of U+00E9

DsInit ==
    /\ ds_bytes \in SeqsUpTo(DataBytes, MaxLen)
    /\ ds_offsets = <<>>
    /\ ds_pc = "closed"
    /\ ds_index = 0
    /\ ds_line = None

DsIdle ==
    /\ ds_bytes = <<>>
    /\ ds_offsets = <<>>
    /\ ds_pc = "idle"
    /\ ds_index = 0
    /\ ds_line = None

\* Dataset::open_jsonl (from_lines and from_stdin build the index the same way).
Open ==
    /\ ds_pc = "closed"
    /\ ds_offsets' = line_offsets(ds_bytes)
    /\ ds_pc' = "open"
    /\ UNCHANGED <<ds_bytes, ds_index, ds_line, not_ds>>

\* Dataset::get_line(index), for an index inside or one past the dataset.
GetLine ==
    /\ ds_pc \in {"open", "read"}
    /\ \E index \in 0..line_count(ds_offsets) :
          /\ ds_index' = index
          /\ ds_line' = get_line(ds_bytes, ds_offsets, index)
    /\ ds_pc' = "read"
    /\ UNCHANGED <<ds_bytes, ds_offsets, not_ds>>

DsNext == Open \/ GetLine

(***************************************************************************)
(* 64-bit words as four 16-bit limbs, least significant first.             *)
(***************************************************************************)
Limb == 65536

RECURSIVE XorBits(_, _, _)
XorBits(a, b, n) ==
    IF n = 0 THEN 0
    ELSE (((a % 2) + (b % 2)) % 2) + 2 * XorBits(a \div 2, b \div 2, n - 1)

RECURSIVE PopCount(_)
PopCount(a) == IF a = 0 THEN 0 ELSE (a % 2) + PopCount(a \div 2)

PowersOf2 == <<1, 2, 4, 8, 16, 32, 64, 128, 256, 512, 1024, 2048, 4096, 8192, 16384, 32768>>
Pow2(n) == PowersOf2[n + 1]

\* bit i (0..63) of the word h
Bit(h, i) == (h[(i \div 16) + 1] \div Pow2(i % 16)) % 2

\* h ^= b as u64
XorByte(h, b) == <<(h[1] - (h[1] % 256)) + XorBits(h[1] % 256, b, 8), h[2], h[3], h[4]>>

\* h.wrapping_mul(0x100000001b3): the prime is 2^40 + 0x1b3
FnvPrimeLow == 435
WrappingMulPrime(h) ==
    LET c1 == h[1] * FnvPrimeLow
        c2 == h[2] * FnvPrimeLow + (c1 \div Limb)
        c3 == h[3] * FnvPrimeLow + (c2 \div Limb)
        c4 == h[4] * FnvPrimeLow + (c3 \div Limb)
        s3 == (h[1] * 256) % Limb
        s4 == ((h[2] * 256) % Limb) + (h[1] \div 256)
        t3 == (c3 % Limb) + s3
        t4 == (c4 % Limb) + s4 + (t3 \div Limb)
    IN  <<c1 % Limb, c2 % Limb, t3 % Limb, t4 % Limb>>

FnvOffsetBasis == <<8997, 33826, 40164, 52210>>     \* 0xcbf29ce484222325

(***************************************************************************)
(* SimHasher and Fingerprint.                                              *)
(***************************************************************************)
RECURSIVE fnv1a_from(_, _, _)
fnv1a_from(h, data, k) ==
    IF k > Len(data) THEN h
    ELSE fnv1a_from(WrappingMulPrime(XorByte(h, data[k])), data, k + 1)

fnv1a(data) == fnv1a_from(FnvOffsetBasis, data, 1)

hash_bytes(data) == fnv1a(data)

ShingleSize == 4     \* SimHasher::default

\* the accumulator after the windows w.. of data: acc[i] is +1 per window whose
\* hash has bit i set and -1 per window whose hash has it clear
RECURSIVE accumulate(_, _, _)
accumulate(acc, data, w) ==
    IF w + ShingleSize > Len(data) THEN acc
    ELSE LET hash == fnv1a(Slice(data, w, w + ShingleSize))
         IN  accumulate([i \in 0..63 |-> IF Bit(hash, i) = 1 THEN acc[i] + 1 ELSE acc[i] - 1],
                        data, w + 1)

RECURSIVE LimbOf(_, _, _)
LimbOf(acc, base, j) ==
    IF j = 16 THEN 0
    ELSE (IF acc[base + j] > 0 THEN Pow2(j) ELSE 0) + LimbOf(acc, base, j + 1)

fingerprint(data) ==
    IF Len(data) < ShingleSize THEN fnv1a(data)
    ELSE LET acc == accumulate([i \in 0..63 |-> 0], data, 0)
         IN  <<LimbOf(acc, 0, 0), LimbOf(acc, 16, 0), LimbOf(acc, 32, 0), LimbOf(acc, 48, 0)>>

hamming_distance(a, b) ==
    PopCount(XorBits(a[1], b[1], 16)) + PopCount(XorBits(a[2], b[2], 16))
    + PopCount(XorBits(a[3], b[3], 16)) + PopCount(XorBits(a[4], b[4], 16))

\* A mutant of is_near_duplicate: the threshold itself is no longer near.
is_near_duplicate_strict(a, b, threshold) == hamming_distance(a, b) < threshold

is_near_duplicate(a, b, threshold) == hamming_distance(a, b) <= threshold

(***************************************************************************)
(* extract_content_bytes: the scanner over the raw bytes of a record.      *)
(***************************************************************************)
ExtractStart ==
    [result |-> <<>>, in_string |-> FALSE, escaped |-> FALSE,
     is_value |-> FALSE, after_colon |-> FALSE]

\* one iteration of the loop: the state st after byte b
extract_step(st, b) ==
    IF st.escaped
    THEN [st EXCEPT !.result = IF st.in_string /\ st.is_value THEN Append(@, b) ELSE @,
                    !.escaped = FALSE]
    ELSE IF b = Backslash /\ st.in_string
    THEN [st EXCEPT !.escaped = TRUE]
    ELSE IF b = Quote
    THEN IF st.in_string
         THEN [st EXCEPT !.result = IF st.is_value THEN Append(@, Space) ELSE @,
                         !.in_string = FALSE,
                         !.is_value = FALSE]
         ELSE [st EXCEPT !.in_string = TRUE, !.is_value = st.after_colon]
    ELSE IF b = Colon /\ ~st.in_string
    THEN [st EXCEPT !.after_colon = TRUE]
    ELSE IF b \in {Comma, RBrace, RBracket} /\ ~st.in_string
    THEN [st EXCEPT !.after_colon = FALSE]
    ELSE IF st.in_string /\ st.is_value
    THEN [st EXCEPT !.result = Append(@, b)]
    ELSE st

RECURSIVE extract_from(_, _, _)
extract_from(st, data, k) ==
    IF k > Len(data) THEN st
    ELSE extract_from(extract_step(st, data[k]), data, k + 1)

extract_content_bytes(data) == extract_from(ExtractStart, data, 1).result

(***************************************************************************)
(* DedupEngine::scan.                                                      *)
(***************************************************************************)
DefaultThreshold == 3     \* DedupStrategy::default

Exact == [kind |-> "Exact", threshold |-> 0]
SimHash(t) == [kind |-> "SimHash", threshold |-> t]

NoFp == <<>>

unwrap_or_empty(opt) == IF opt.some THEN opt.s ELSE <<>>

\* the closure phase 1 maps over the indices: the fingerprint of record i
record_fingerprint(data, offsets, strategy, i) ==
    LET line == unwrap_or_empty(get_line(data, offsets, i))
    IN  IF strategy.kind = "Exact"
        THEN hash_bytes(line)
        ELSE fingerprint(extract_content_bytes(line))

\* A mutant of collect: results land in the order the workers finish.
collect_slot_by_completion(i, finished) == finished

\* collect() of an indexed parallel iterator: the result of index i lands in slot i
collect_slot(i, finished) == i

\* exact mode: the entry of the HashMap under fp, as a set of zero or one index
seen_get(seen, fp) == {e.index : e \in {x \in seen : x.fp = fp}}

\* similarity mode: the positions of unique_fps within the threshold of fp
near_positions(unique, fp, threshold) ==
    {k \in 1..Len(unique) : is_near_duplicate(fp, unique[k].fp, threshold)}

SetMin(S) == CHOOSE x \in S : \A y \in S : x <= y

\* A mutant of the similarity loop: every record joins unique_fps, found or not.
push_unique_always(unique, i, fp, found) == Append(unique, [index |-> i, fp |-> fp])

\* if !found { unique_fps.push((i, fp)) }
push_unique(unique, i, fp, found) ==
    IF found THEN unique ELSE Append(unique, [index |-> i, fp |-> fp])

\* A mutant of the exact loop: the map keeps the last index of a fingerprint.
seen_insert_latest(seen, i, fp) == {x \in seen : x.fp # fp} \cup {[fp |-> fp, index |-> i]}

\* the two arms of seen.entry(fp): an occupied entry is left as it is
seen_insert(seen, i, fp) ==
    IF seen_get(seen, fp) # {} THEN seen ELSE seen \cup {[fp |-> fp, index |-> i]}

(***************************************************************************)
(* The dedup specification: a dataset of up to MaxRecords records is       *)
(* scanned; phase 1 runs its closure once per index, in any order, phase 2 *)
(* walks the fingerprints in index order.                                  *)
(***************************************************************************)
JsonT(v) == <<123, 34, 116, 34, 58, 34>> \o v \o <<34, 125>>     \* {"t":"v"}

LineA == JsonT(<<97, 97, 97, 97, 97, 98>>)     \* aaaaab
LineB == JsonT(<<97, 97, 97, 97, 97, 97>>)     \* aaaaaa
LineC == JsonT(<<97, 97, 97, 97, 97, 99>>)     \* aaaaac

LinePool == {LineA, LineB, LineC}

Strategies == {Exact, SimHash(DefaultThreshold)}

RECURSIVE JoinLines(_)
JoinLines(lines) ==
    IF Len(lines) = 0 THEN <<>>
    ELSE IF Len(lines) = 1 THEN lines[1]
    ELSE lines[1] \o <<Newline>> \o JoinLines(Tail(lines))

DdInit ==
    /\ dd_lines \in SeqsUpTo(LinePool, MaxRecords) \ {<<>>}
    /\ \E final_newline \in BOOLEAN :
          dd_bytes = JoinLines(dd_lines) \o (IF final_newline THEN <<Newline>> ELSE <<>>)
    /\ dd_offsets = line_offsets(dd_bytes)
    /\ dd_strategy \in Strategies
    /\ dd_pc = "phase1"
    /\ dd_taken = {}
    /\ dd_fps = [i \in 0..(line_count(dd_offsets) - 1) |-> NoFp]
    /\ dd_i = 0
    /\ dd_dup = {}
    /\ dd_canon = <<>>
    /\ dd_seen = {}
    /\ dd_unique = <<>>
    /\ dd_result = [total_lines |-> 0, unique_count |-> 0, duplicate_count |-> 0]

DdIdle ==
    /\ dd_lines = <<>>
    /\ dd_bytes = <<>>
    /\ dd_offsets = <<>>
    /\ dd_strategy = Exact
    /\ dd_pc = "idle"
    /\ dd_taken = {}
    /\ dd_fps = <<>>
    /\ dd_i = 0
    /\ dd_dup = {}
    /\ dd_canon = <<>>
    /\ dd_seen = {}
    /\ dd_unique = <<>>
    /\ dd_result = [total_lines |-> 0, unique_count |-> 0, duplicate_count |-> 0]

\* phase 1: a worker runs the closure for an index nobody has taken
FingerprintRecord ==
    /\ dd_pc = "phase1"
    /\ \E i \in (0..(line_count(dd_offsets) - 1)) \ dd_taken :
          /\ dd_fps' = [dd_fps EXCEPT ![collect_slot(i, Cardinality(dd_taken))] =
                            record_fingerprint(dd_bytes, dd_offsets, dd_strategy, i)]
          /\ dd_taken' = dd_taken \cup {i}
    /\ UNCHANGED <<dd_lines, dd_bytes, dd_offsets, dd_strategy, dd_pc, dd_i, dd_dup,
                   dd_canon, dd_seen, dd_unique, dd_result, not_dd>>

\* the collect is over: the bitmask and the canonical map are set up
BeginPhase2 ==
    /\ dd_pc = "phase1"
    /\ dd_taken = 0..(line_count(dd_offsets) - 1)
    /\ dd_pc' = "phase2"
    /\ dd_dup' = {}
    /\ dd_canon' = [k \in 1..line_count(dd_offsets) |-> k - 1]
    /\ dd_i' = 0
    /\ UNCHANGED <<dd_lines, dd_bytes, dd_offsets, dd_strategy, dd_taken, dd_fps,
                   dd_seen, dd_unique, dd_result, not_dd>>

\* one iteration of the exact loop
ExactStep ==
    /\ dd_pc = "phase2"
    /\ dd_strategy.kind = "Exact"
    /\ dd_i < line_count(dd_offsets)
    /\ LET i   == dd_i
           fp  == dd_fps[i]
           hit == seen_get(dd_seen, fp)
       IN  /\ dd_dup' = IF hit # {} THEN dd_dup \cup {i} ELSE dd_dup
           /\ dd_canon' = IF hit # {}
                          THEN [dd_canon EXCEPT ![i + 1] = CHOOSE j \in hit : TRUE]
                          ELSE dd_canon
           /\ dd_seen' = seen_insert(dd_seen, i, fp)
           /\ dd_i' = i + 1
    /\ UNCHANGED <<dd_lines, dd_bytes, dd_offsets, dd_strategy, dd_pc, dd_taken, dd_fps,
                   dd_unique, dd_result, not_dd>>

\* one iteration of the similarity loop
SimHashStep ==
    /\ dd_pc = "phase2"
    /\ dd_strategy.kind = "SimHash"
    /\ dd_i < line_count(dd_offsets)
    /\ LET i     == dd_i
           fp    == dd_fps[i]
           near  == near_positions(dd_unique, fp, dd_strategy.threshold)
           found == near # {}
       IN  /\ dd_dup' = IF found THEN dd_dup \cup {i} ELSE dd_dup
           /\ dd_canon' = IF found
                          THEN [dd_canon EXCEPT ![i + 1] = dd_unique[SetMin(near)].index]
                          ELSE dd_canon
           /\ dd_unique' = push_unique(dd_unique, i, fp, found)
           /\ dd_i' = i + 1
    /\ UNCHANGED <<dd_lines, dd_bytes, dd_offsets, dd_strategy, dd_pc, dd_taken, dd_fps,
                   dd_seen, dd_result, not_dd>>

\* the loop is over: the counts of the result
Finish ==
    /\ dd_pc = "phase2"
    /\ dd_i = line_count(dd_offsets)
    /\ dd_pc' = "done"
    /\ dd_result' = [total_lines |-> line_count(dd_offsets),
                     unique_count |-> line_count(dd_offsets) - Cardinality(dd_dup),
                     duplicate_count |-> Cardinality(dd_dup)]
    /\ UNCHANGED <<dd_lines, dd_bytes, dd_offsets, dd_strategy, dd_taken, dd_fps, dd_i,
                   dd_dup, dd_canon, dd_seen, dd_unique, not_dd>>

DdNext == FingerprintRecord \/ BeginPhase2 \/ ExactStep \/ SimHashStep \/ Finish

(***************************************************************************)
(* Claims about the dataset layer (checked under SpecData).                *)
(***************************************************************************)
ds_count == line_count(ds_offsets)

\* len(get_line(i)), an absent line counting 0
present_len(i) == Len(unwrap_or_empty(get_line(ds_bytes, ds_offsets, i)))

RECURSIVE sum_of_lengths(_)
sum_of_lengths(n) == IF n = 0 THEN 0 ELSE present_len(n - 1) + sum_of_lengths(n - 1)

ends_in_newline == Len(ds_bytes) > 0 /\ ds_bytes[Len(ds_bytes)] = Newline

all_present == \A i \in 0..(ds_count - 1) : get_line(ds_bytes, ds_offsets, i).some

\* C6: for every Dataset and every index i < line_count(), the content get_line(i)
\* returns holds no newline byte, the last record included.
C6_NoNewlineInRecord ==
    (ds_pc = "read" /\ ds_line.some) =>
        \A k \in 1..Len(ds_line.s) : ds_line.s[k] # Newline

\* C7 as stated: the sum of len(get_line(i)) over all records (absent lines counting
\* 0) plus line_count - 1 is at most len(B), with equality whenever B ends in a
\* newline.
C7_EqualityWheneverNewlineEnds ==
    ds_pc = "open" =>
        /\ sum_of_lengths(ds_count) + ds_count - 1 <= Len(ds_bytes)
        /\ ends_in_newline => sum_of_lengths(ds_count) + ds_count - 1 = Len(ds_bytes)

\* C7 as amended: the sum of len(get_line(i)) over all records (absent lines
\* counting 0) plus line_count - 1 is at most len(B), with equality whenever every
\* record is present, that is, whenever no record holds invalid UTF-8 (whether or
\* not B ends in a newline).
C7_SumOfRecordLengths ==
    ds_pc = "open" =>
        /\ sum_of_lengths(ds_count) + ds_count - 1 <= Len(ds_bytes)
        /\ all_present => sum_of_lengths(ds_count) + ds_count - 1 = Len(ds_bytes)

\* a source of several records that ends in a newline and holds only valid UTF-8
C7_Witness ==
    /\ ds_pc = "open"
    /\ ds_count >= 2
    /\ ends_in_newline
    /\ all_present
    /\ sum_of_lengths(ds_count) > 0

\* C26: the record start offsets of every Dataset, over any byte source:
\* offsets[0] = 0, the offsets increase strictly, the last one is at most
\* len(bytes), line_count is the number of offsets, and an offset p + 1 is present
\* iff byte p is a newline and p + 1 < len(bytes).
C26_OffsetsIndexTheNewlines ==
    ds_pc \in {"open", "read"} =>
        /\ ds_offsets[1] = 0
        /\ \A k \in 1..(Len(ds_offsets) - 1) : ds_offsets[k] < ds_offsets[k + 1]
        /\ ds_offsets[Len(ds_offsets)] <= Len(ds_bytes)
        /\ ds_count = Len(ds_offsets)
        /\ ds_count = 1 + Cardinality({p \in 0..(Len(ds_bytes) - 1) :
                                         ds_bytes[p + 1] = Newline /\ p + 1 < Len(ds_bytes)})
        /\ \A p \in 0..(Len(ds_bytes) - 1) :
              (\E k \in 1..Len(ds_offsets) : ds_offsets[k] = p + 1)
              <=> (ds_bytes[p + 1] = Newline /\ p + 1 < Len(ds_bytes))

\* a source with a newline inside it, which starts a record, and a newline at
\* its end, which starts none
C26_Witness ==
    /\ ds_pc = "open"
    /\ ends_in_newline
    /\ Len(ds_offsets) >= 2
    /\ ds_offsets[Len(ds_offsets)] < Len(ds_bytes)
    /\ Cardinality({p \in 1..Len(ds_bytes) : ds_bytes[p] = Newline}) = Len(ds_offsets)

(***************************************************************************)
(* Claims about the dedup scan (checked under SpecDedup).                  *)
(***************************************************************************)
dd_count == line_count(dd_offsets)

dd_indices == 0..(dd_count - 1)

\* record i is considered equivalent to record j under the strategy of the scan
equivalent(i, j) ==
    IF dd_strategy.kind = "Exact"
    THEN dd_fps[i] = dd_fps[j]
    ELSE hamming_distance(dd_fps[i], dd_fps[j]) <= dd_strategy.threshold

\* C1: in every scan result, exact or similarity, every record index i has
\* canonical_map[i] <= i and canonical_map[canonical_map[i]] = canonical_map[i].
C1_CanonicalIsFixedPoint ==
    dd_pc = "done" =>
        \A i \in dd_indices :
            /\ dd_canon[i + 1] <= i
            /\ dd_canon[dd_canon[i + 1] + 1] = dd_canon[i + 1]

\* a similarity scan that flagged two records, one of them not against record 0
C1_Witness ==
    /\ dd_pc = "done"
    /\ dd_strategy.kind = "SimHash"
    /\ Cardinality(dd_dup) >= 2
    /\ \E i \in dd_dup : dd_canon[i + 1] > 0

\* C2: in exact mode over a line-delimited source, record i is flagged iff some
\* earlier record j < i has the same content bytes (the line terminator excluded),
\* and canonical_map[i] is then the smallest such j; the unique count is the number
\* of distinct contents.
C2_ExactFlagsEqualContent ==
    (dd_pc = "done" /\ dd_strategy.kind = "Exact") =>
        /\ \A i \in dd_indices :
              LET earlier == {j \in 0..(i - 1) : dd_lines[j + 1] = dd_lines[i + 1]}
              IN  /\ (i \in dd_dup) <=> (earlier # {})
                  /\ (earlier # {}) => dd_canon[i + 1] = SetMin(earlier)
        /\ dd_result.unique_count = Cardinality({dd_lines[k] : k \in 1..Len(dd_lines)})

\* C3 as stated: canonical_map[i] is the smallest j <= i such that record i is
\* equivalent to record j (exact: equal fingerprints; similarity: Hamming distance
\* within the threshold), and canonical_map[i] = i for every non-duplicate.
C3_SmallestEquivalent ==
    dd_pc = "done" =>
        \A i \in dd_indices :
            /\ dd_canon[i + 1] = SetMin({j \in 0..i : equivalent(i, j)})
            /\ (i \notin dd_dup) => dd_canon[i + 1] = i

\* C3 as amended: canonical_map[i] is the smallest j <= i such that record j is not
\* flagged as a duplicate (or j = i) and record i is equivalent to record j, and
\* canonical_map[i] = i for every non-duplicate.
C3_SmallestUnflaggedEquivalent ==
    dd_pc = "done" =>
        \A i \in dd_indices :
            /\ dd_canon[i + 1] =
                  SetMin({j \in 0..i : (j = i \/ j \notin dd_dup) /\ equivalent(i, j)})
            /\ (i \notin dd_dup) => dd_canon[i + 1] = i

\* a similarity scan in which a record is within the threshold of an earlier,
\* flagged record and of no earlier unflagged one
C3_Witness ==
    /\ dd_pc = "done"
    /\ dd_strategy.kind = "SimHash"
    /\ \E i \in dd_indices :
          /\ i \notin dd_dup
          /\ \E j \in 0..(i - 1) : j \in dd_dup /\ equivalent(i, j)

\* C8: phase 1 yields, under every order in which the workers take the indices,
\* the vector whose entry i is the fingerprint of record i computed on its own.
C8_FingerprintsByIndex ==
    (dd_pc = "phase1" /\ dd_taken = dd_indices) =>
        \A i \in dd_indices :
            dd_fps[i] = record_fingerprint(dd_bytes, dd_offsets, dd_strategy, i)

\* the collect of a full-size dataset whose records do not all hash alike
C8_Witness ==
    /\ dd_pc = "phase1"
    /\ dd_taken = dd_indices
    /\ dd_count = MaxRecords
    /\ Cardinality({dd_fps[i] : i \in dd_indices}) >= 3

\* C21: in every scan result and for every record i, the duplicate bit of
\* canonical_map[i] is not set: the canonical of a record is never a duplicate.
C21_CanonicalNeverFlagged ==
    dd_pc = "done" =>
        \A i \in dd_indices : dd_canon[i + 1] \notin dd_dup

\* an exact scan that met the same fingerprint three times: the third record
\* follows a flagged record with its fingerprint and is mapped past it
C21_Witness ==
    /\ dd_pc = "done"
    /\ dd_strategy.kind = "Exact"
    /\ \E i \in dd_dup :
          \E j \in dd_dup : j < i /\ dd_fps[j] = dd_fps[i] /\ dd_canon[i + 1] < j

\* the earlier records that were not flagged and whose fingerprint lies within
\* the threshold t of the fingerprint of record i
unflagged_within(i, t) ==
    {j \in 0..(i - 1) : j \notin dd_dup /\ hamming_distance(dd_fps[i], dd_fps[j]) <= t}

\* C22: in similarity mode with threshold t, record i is flagged iff the
\* fingerprint of some earlier unflagged record is within Hamming distance t of
\* its own; canonical_map[i] is then the earliest such unflagged record, and a
\* record is never mapped to a flagged record.
C22_FlaggedIffNearEarlierUnflagged ==
    (dd_pc = "done" /\ dd_strategy.kind = "SimHash") =>
        \A i \in dd_indices :
            LET near == unflagged_within(i, dd_strategy.threshold)
            IN  /\ (i \in dd_dup) <=> (near # {})
                /\ (near # {}) => dd_canon[i + 1] = SetMin(near)
                /\ (i \in dd_dup) => dd_canon[i + 1] \notin dd_dup

\* a similarity scan with a flagged record at exactly the threshold from its
\* canonical, which is the earlier of two unflagged records within the threshold
C22_Witness ==
    /\ dd_pc = "done"
    /\ dd_strategy.kind = "SimHash"
    /\ \E i \in dd_dup :
          /\ Cardinality(unflagged_within(i, dd_strategy.threshold)) >= 2
          /\ hamming_distance(dd_fps[i], dd_fps[dd_canon[i + 1]]) = dd_strategy.threshold

(***************************************************************************)
(* JSON values (serde_json::Value) and their compact text.  An object      *)
(* holds its members as a sequence, in the order the Map iterates them.    *)
(***************************************************************************)
JNull == [t |-> "null", s |-> <<>>, items |-> <<>>]
JBool(b) == [t |-> IF b THEN "true" ELSE "false", s |-> <<>>, items |-> <<>>]
JStr(s) == [t |-> "str", s |-> s, items |-> <<>>]
JArr(items) == [t |-> "arr", s |-> <<>>, items |-> items]
JObj(members) == [t |-> "obj", s |-> <<>>, items |-> members]
Member(k, v) == [k |-> k, v |-> v]

HexDigit(n) == IF n < 10 THEN 48 + n ELSE 87 + n

\* one byte of a string as serde_json writes it
escape_byte(b) ==
    IF b = Quote THEN <<Backslash, Quote>>
    ELSE IF b = Backslash THEN <<Backslash, Backslash>>
    ELSE IF b = 8 THEN <<Backslash, 98>>
    ELSE IF b = 9 THEN <<Backslash, 116>>
    ELSE IF b = Newline THEN <<Backslash, 110>>
    ELSE IF b = 12 THEN <<Backslash, 102>>
    ELSE IF b = 13 THEN <<Backslash, 114>>
    ELSE IF b < 32 THEN <<Backslash, 117, 48, 48, HexDigit(b \div 16), HexDigit(b % 16)>>
    ELSE <<b>>

RECURSIVE escape_from(_, _)
escape_from(s, k) == IF k > Len(s) THEN <<>> ELSE escape_byte(s[k]) \o escape_from(s, k + 1)

string_text(s) == <<Quote>> \o escape_from(s, 1) \o <<Quote>>

\* serde_json::to_string: compact, members in the order of the map
RECURSIVE to_string(_)
RECURSIVE items_text(_, _, _)
items_text(items, k, is_obj) ==
    IF k > Len(items) THEN <<>>
    ELSE (IF k > 1 THEN <<Comma>> ELSE <<>>)
         \o (IF is_obj
             THEN string_text(items[k].k) \o <<Colon>> \o to_string(items[k].v)
             ELSE to_string(items[k]))
         \o items_text(items, k + 1, is_obj)

to_string(v) ==
    IF v.t = "null" THEN <<110, 117, 108, 108>>
    ELSE IF v.t = "true" THEN <<116, 114, 117, 101>>
    ELSE IF v.t = "false" THEN <<102, 97, 108, 115, 101>>
    ELSE IF v.t = "num" THEN v.s
    ELSE IF v.t = "str" THEN string_text(v.s)
    ELSE IF v.t = "arr" THEN <<91>> \o items_text(v.items, 1, FALSE) \o <<RBracket>>
    ELSE <<123>> \o items_text(v.items, 1, TRUE) \o <<RBrace>>

(***************************************************************************)
(* serde_json::from_str: the parser of a line into a Value.  Numbers are   *)
(* read as non-negative integers only and \u escapes of surrogate pairs    *)
(* are not read; no record of the model holds either.                      *)
(***************************************************************************)
ParseFail == [ok |-> FALSE, v |-> JNull, pos |-> 0]
ParseOk(v, pos) == [ok |-> TRUE, v |-> v, pos |-> pos]

JNum(digits) == [t |-> "num", s |-> digits, items |-> <<>>]

IsJsonWs(b) == b \in {32, 10, 9, 13}

RECURSIVE skip_ws(_, _)
skip_ws(data, k) == IF k <= Len(data) /\ IsJsonWs(data[k]) THEN skip_ws(data, k + 1) ELSE k

HexVal(b) ==
    IF b >= 48 /\ b <= 57 THEN b - 48
    ELSE IF b >= 97 /\ b <= 102 THEN b - 87
    ELSE IF b >= 65 /\ b <= 70 THEN b - 55
    ELSE -1

\* the byte a one-letter escape stands for, -1 for none
unescape(e) ==
    IF e = Quote THEN Quote
    ELSE IF e = Backslash THEN Backslash
    ELSE IF e = 47 THEN 47
    ELSE IF e = 98 THEN 8
    ELSE IF e = 102 THEN 12
    ELSE IF e = 110 THEN Newline
    ELSE IF e = 114 THEN 13
    ELSE IF e = 116 THEN 9
    ELSE -1

\* the UTF-8 bytes of a code point below 0x10000
encode_utf8(cp) ==
    IF cp < 128 THEN <<cp>>
    ELSE IF cp < 2048 THEN <<192 + (cp \div 64), 128 + (cp % 64)>>
    ELSE <<224 + (cp \div 4096), 128 + ((cp \div 64) % 64), 128 + (cp % 64)>>

\* the first position from k on that holds a quote, a backslash or a control byte,
\* Len(data) + 1 for none: the bytes before it are copied as they are
plain_run_end(data, k) ==
    SetMin({j \in k..(Len(data) + 1) :
               j > Len(data) \/ data[j] = Quote \/ data[j] = Backslash \/ data[j] < 32})

\* the rest of a string whose opening quote was read, acc its bytes so far
RECURSIVE parse_string_from(_, _, _)
parse_string_from(data, k, acc) ==
    IF k > Len(data) THEN ParseFail
    ELSE IF plain_run_end(data, k) > k
    THEN parse_string_from(data, plain_run_end(data, k),
                           acc \o Slice(data, k - 1, plain_run_end(data, k) - 1))
    ELSE IF data[k] = Quote THEN ParseOk(JStr(acc), k + 1)
    ELSE IF data[k] = Backslash
    THEN IF k + 1 > Len(data) THEN ParseFail
         ELSE IF data[k + 1] = 117
         THEN IF k + 5 > Len(data) THEN ParseFail
              ELSE LET h == [n \in 1..4 |-> HexVal(data[k + 1 + n])]
                       cp == ((h[1] * 16 + h[2]) * 16 + h[3]) * 16 + h[4]
                   IN  IF (\E n \in 1..4 : h[n] < 0) \/ (cp >= 55296 /\ cp <= 57343)
                       THEN ParseFail
                       ELSE parse_string_from(data, k + 6, acc \o encode_utf8(cp))
         ELSE IF unescape(data[k + 1]) < 0 THEN ParseFail
         ELSE parse_string_from(data, k + 2, Append(acc, unescape(data[k + 1])))
    ELSE ParseFail

IsDigit(b) == b >= 48 /\ b <= 57

RECURSIVE digits_end(_, _)
digits_end(data, k) == IF k <= Len(data) /\ IsDigit(data[k]) THEN digits_end(data, k + 1) ELSE k

literal_at(data, k, word) ==
    /\ k + Len(word) - 1 <= Len(data)
    /\ \A n \in 1..Len(word) : data[k + n - 1] = word[n]

RECURSIVE bytes_less(_, _)
bytes_less(a, b) ==
    IF Len(b) = 0 THEN FALSE
    ELSE IF Len(a) = 0 THEN TRUE
    ELSE IF a[1] # b[1] THEN a[1] < b[1]
    ELSE bytes_less(Tail(a), Tail(b))

\* Map::insert: a BTreeMap keeps the keys sorted, an IndexMap (the preserve_order
\* feature) keeps them in insertion order; a key that is there keeps its place and
\* takes the new value
map_insert(members, k, v, preserve_order) ==
    IF \E n \in 1..Len(members) : members[n].k = k
    THEN [n \in 1..Len(members) |-> IF members[n].k = k THEN Member(k, v) ELSE members[n]]
    ELSE IF preserve_order THEN Append(members, Member(k, v))
    ELSE LET before == SelectSeq(members, LAMBDA m : bytes_less(m.k, k))
             after  == SelectSeq(members, LAMBDA m : ~bytes_less(m.k, k))
         IN  before \o <<Member(k, v)>> \o after

RECURSIVE parse_value(_, _, _)
RECURSIVE parse_elements(_, _, _, _)
RECURSIVE parse_members(_, _, _, _)

\* the elements of an array from position k on, acc the elements read so far
parse_elements(data, k, acc, po) ==
    LET r == parse_value(data, k, po)
        j == skip_ws(data, r.pos)
    IN  IF ~r.ok \/ j > Len(data) THEN ParseFail
        ELSE IF data[j] = Comma THEN parse_elements(data, j + 1, Append(acc, r.v), po)
        ELSE IF data[j] = RBracket THEN ParseOk(JArr(Append(acc, r.v)), j + 1)
        ELSE ParseFail

\* the members of an object from position k on, acc the map so far
parse_members(data, k, acc, po) ==
    LET j == skip_ws(data, k)
    IN  IF j > Len(data) \/ data[j] # Quote THEN ParseFail
        ELSE LET key == parse_string_from(data, j + 1, <<>>)
                 c   == skip_ws(data, key.pos)
             IN  IF ~key.ok \/ c > Len(data) \/ data[c] # Colon THEN ParseFail
                 ELSE LET val == parse_value(data, c + 1, po)
                          e   == skip_ws(data, val.pos)
                          map == map_insert(acc, key.v.s, val.v, po)
                      IN  IF ~val.ok \/ e > Len(data) THEN ParseFail
                          ELSE IF data[e] = Comma THEN parse_members(data, e + 1, map, po)
                          ELSE IF data[e] = RBrace THEN ParseOk(JObj(map), e + 1)
                          ELSE ParseFail

\* one value, after any whitespace, from position k0 on
parse_value(data, k0, po) ==
    LET k == skip_ws(data, k0)
    IN  IF k > Len(data) THEN ParseFail
        ELSE IF data[k] = Quote THEN parse_string_from(data, k + 1, <<>>)
        ELSE IF data[k] = 91
        THEN LET j == skip_ws(data, k + 1)
             IN  IF j <= Len(data) /\ data[j] = RBracket THEN ParseOk(JArr(<<>>), j + 1)
                 ELSE parse_elements(data, j, <<>>, po)
        ELSE IF data[k] = 123
        THEN LET j == skip_ws(data, k + 1)
             IN  IF j <= Len(data) /\ data[j] = RBrace THEN ParseOk(JObj(<<>>), j + 1)
                 ELSE parse_members(data, j, <<>>, po)
        ELSE IF literal_at(data, k, <<110, 117, 108, 108>>) THEN ParseOk(JNull, k + 4)
        ELSE IF literal_at(data, k, <<116, 114, 117, 101>>) THEN ParseOk(JBool(TRUE), k + 4)
        ELSE IF literal_at(data, k, <<102, 97, 108, 115, 101>>) THEN ParseOk(JBool(FALSE), k + 5)
        ELSE IF IsDigit(data[k])
        THEN LET e == IF data[k] = 48 THEN k + 1 ELSE digits_end(data, k)
             IN  ParseOk(JNum(Slice(data, k - 1, e - 1)), e)
        ELSE ParseFail

\* serde_json::from_str: one value, then nothing but whitespace
from_str(data, po) ==
    LET r == parse_value(data, 1, po)
    IN  IF r.ok /\ skip_ws(data, r.pos) > Len(data) THEN r ELSE ParseFail

(***************************************************************************)
(* The repairer (fixer.rs) and the validator (linter.rs).                  *)
(***************************************************************************)
ThinkOpen  == <<60, 116, 104, 105, 110, 107, 62>>        \* "<think>"
ThinkClose == <<60, 47, 116, 104, 105, 110, 107, 62>>    \* "</think>"

SetMax(S) == CHOOSE x \in S : \A y \in S : x >= y

\* pat stands in s at the 0-based position p
starts_at(s, pat, p) ==
    /\ p + Len(pat) <= Len(s)
    /\ \A n \in 1..Len(pat) : s[p + n] = pat[n]

match_positions(s, pat) == {p \in 0..Len(s) : starts_at(s, pat, p)}

contains(s, pat) == match_positions(s, pat) # {}

ends_with(s, pat) == Len(s) >= Len(pat) /\ starts_at(s, pat, Len(s) - Len(pat))

\* Regex::find_iter(s).count(): the matches from the 0-based position p on, taken
\* from the left, none overlapping
RECURSIVE find_iter_count(_, _, _)
find_iter_count(s, pat, p) ==
    LET later == {q \in match_positions(s, pat) : q >= p}
    IN  IF later = {} THEN 0
        ELSE 1 + find_iter_count(s, pat, SetMin(later) + Len(pat))

\* the length of the White_Space character that ends s, 0 for none
whitespace_suffix(s) ==
    LET n == Len(s)
    IN  IF n >= 1 /\ s[n] \in {9, 10, 11, 12, 13, 32} THEN 1
        ELSE IF n >= 2 /\ s[n - 1] = 194 /\ s[n] \in {133, 160} THEN 2
        ELSE IF n >= 3 /\
                \/ s[n - 2] = 225 /\ s[n - 1] = 154 /\ s[n] = 128
                \/ s[n - 2] = 226 /\ s[n - 1] = 128 /\ s[n] \in (128..138) \cup {168, 169, 175}
                \/ s[n - 2] = 226 /\ s[n - 1] = 129 /\ s[n] = 159
                \/ s[n - 2] = 227 /\ s[n - 1] = 128 /\ s[n] = 128
             THEN 3
        ELSE 0

\* the length of the White_Space character that opens s, 0 for none
whitespace_prefix(s) ==
    LET n == Len(s)
    IN  IF n >= 1 /\ s[1] \in {9, 10, 11, 12, 13, 32} THEN 1
        ELSE IF n >= 2 /\ s[1] = 194 /\ s[2] \in {133, 160} THEN 2
        ELSE IF n >= 3 /\
                \/ s[1] = 225 /\ s[2] = 154 /\ s[3] = 128
                \/ s[1] = 226 /\ s[2] = 128 /\ s[3] \in (128..138) \cup {168, 169, 175}
                \/ s[1] = 226 /\ s[2] = 129 /\ s[3] = 159
                \/ s[1] = 227 /\ s[2] = 128 /\ s[3] = 128
             THEN 3
        ELSE 0

RECURSIVE trim_end(_)
trim_end(s) ==
    IF whitespace_suffix(s) = 0 THEN s
    ELSE trim_end(Slice(s, 0, Len(s) - whitespace_suffix(s)))

RECURSIVE trim_start(_)
trim_start(s) ==
    IF whitespace_prefix(s) = 0 THEN s
    ELSE trim_start(Slice(s, whitespace_prefix(s), Len(s)))

trim(s) == trim_end(trim_start(s))

\* the 0-based position after the run of spaces that starts at p
RECURSIVE spaces_end(_, _)
spaces_end(s, p) == IF p < Len(s) /\ s[p + 1] = Space THEN spaces_end(s, p + 1) ELSE p

\* whitespace_before_newline.is_match: " +\n" stands somewhere in s
whitespace_before_newline_is_match(s) == contains(s, <<Space, Newline>>)

\* the 0-based positions from p on where a match of " +\n" starts
whitespace_before_newline_matches(s, p) ==
    {q \in p..(Len(s) - 1) :
        /\ s[q + 1] = Space
        /\ spaces_end(s, q) < Len(s)
        /\ s[spaces_end(s, q) + 1] = Newline}

\* whitespace_before_newline.replace_all(s, "\n") from the 0-based position p on:
\* the leftmost match gives way to a newline, the scan goes on after it
RECURSIVE whitespace_before_newline_replace_all(_, _)
whitespace_before_newline_replace_all(s, p) ==
    LET matches == whitespace_before_newline_matches(s, p)
        q == SetMin(matches)
    IN  IF matches = {} THEN Slice(s, p, Len(s))
        ELSE Slice(s, p, q) \o <<Newline>>
             \o whitespace_before_newline_replace_all(s, spaces_end(s, q) + 1)

\* if !fixes.contains(&f) { fixes.push(f) }
\* a mutant of push_fix: the fix is made and not recorded
push_fix_forgotten(fixes, f) == fixes

push_fix(fixes, f) ==
    IF \E n \in 1..Len(fixes) : fixes[n] = f THEN fixes ELSE Append(fixes, f)

\* fix_string: s and fixes after the call
fix_string(s, fixes) ==
    LET trimmed == trim_end(s)
        s1 == IF Len(trimmed) < Len(s) THEN trimmed ELSE s
        f1 == IF Len(trimmed) < Len(s) THEN push_fix(fixes, "RemovedTrailingWhitespace") ELSE fixes
    IN  IF whitespace_before_newline_is_match(s1)
        THEN [s |-> whitespace_before_newline_replace_all(s1, 0),
              fixes |-> push_fix(f1, "TrimmedWhitespaceBeforeNewlines")]
        ELSE [s |-> s1, fixes |-> f1]

find_think_close_position(content) ==
    IF contains(content, <<Newline, Newline>>)
    THEN SetMin(match_positions(content, <<Newline, Newline>>))
    ELSE Len(content)

insert_str(s, p, text) == Slice(s, 0, p) \o text \o Slice(s, p, Len(s))

\* one turn of the loop that adds closing tags
add_closing_tag(s, fixes) ==
    IF ~contains(s, ThinkOpen) THEN [s |-> s, fixes |-> fixes]
    ELSE LET last_open_pos == SetMax(match_positions(s, ThinkOpen))
             after_open == Slice(s, last_open_pos, Len(s))
         IN  IF contains(after_open, ThinkClose) THEN [s |-> s, fixes |-> fixes]
             ELSE LET close_pos == find_think_close_position(Slice(s, last_open_pos + 7, Len(s)))
                      insert_pos == last_open_pos + 7 + close_pos
                  IN  [s |-> insert_str(s, insert_pos, ThinkClose),
                       fixes |-> push_fix(fixes, "AddedClosingThinkTag")]

RECURSIVE add_closing_tags(_, _, _)
add_closing_tags(s, fixes, n) ==
    IF n = 0 THEN [s |-> s, fixes |-> fixes]
    ELSE LET r == add_closing_tag(s, fixes) IN add_closing_tags(r.s, r.fixes, n - 1)

RECURSIVE add_opening_tags(_, _, _)
add_opening_tags(s, fixes, n) ==
    IF n = 0 THEN [s |-> s, fixes |-> fixes]
    ELSE add_opening_tags(ThinkOpen \o s, push_fix(fixes, "AddedOpeningThinkTag"), n - 1)

fix_think_tags(s, fixes) ==
    LET open_count == find_iter_count(s, ThinkOpen, 0)
        close_count == find_iter_count(s, ThinkClose, 0)
    IN  IF open_count > close_count THEN add_closing_tags(s, fixes, open_count - close_count)
        ELSE IF open_count < close_count THEN add_opening_tags(s, fixes, close_count - open_count)
        ELSE [s |-> s, fixes |-> fixes]

Role    == <<114, 111, 108, 101>>                        \* "role"
Content == <<99, 111, 110, 116, 101, 110, 116>>          \* "content"
Assistant == <<97, 115, 115, 105, 115, 116, 97, 110, 116>>   \* "assistant"

\* obj.get(key): the members of that key, one at most
map_get(members, key) == SelectSeq(members, LAMBDA m : m.k = key)

RECURSIVE fix_value(_, _)
RECURSIVE fix_items(_, _, _)
RECURSIVE fix_members(_, _, _, _)

\* the loop over an array: the items from k on are still to fix
fix_items(items, k, fixes) ==
    IF k > Len(items) THEN [v |-> JArr(items), fixes |-> fixes]
    ELSE LET r == fix_value(items[k], fixes)
         IN  fix_items([items EXCEPT ![k] = r.v], k + 1, r.fixes)

\* the loop over obj.iter_mut(): the members from k on are still to fix
fix_members(members, k, is_assistant, fixes) ==
    IF k > Len(members) THEN [v |-> JObj(members), fixes |-> fixes]
    ELSE IF is_assistant /\ members[k].k = Content
    THEN IF members[k].v.t = "str"
         THEN LET a == fix_string(members[k].v.s, fixes)
                  b == fix_think_tags(a.s, a.fixes)
              IN  fix_members([members EXCEPT ![k] = Member(Content, JStr(b.s))], k + 1,
                              is_assistant, b.fixes)
         ELSE fix_members(members, k + 1, is_assistant, fixes)
    ELSE LET r == fix_value(members[k].v, fixes)
         IN  fix_members([members EXCEPT ![k] = Member(members[k].k, r.v)], k + 1,
                         is_assistant, r.fixes)

fix_object(members, fixes) ==
    LET role == map_get(members, Role)
        is_assistant == Len(role) > 0 /\ role[1].v.t = "str" /\ role[1].v.s = Assistant
    IN  fix_members(members, 1, is_assistant, fixes)

fix_value(value, fixes) ==
    IF value.t = "str"
    THEN LET r == fix_string(value.s, fixes) IN [v |-> JStr(r.s), fixes |-> r.fixes]
    ELSE IF value.t = "arr" THEN fix_items(value.items, 1, fixes)
    ELSE IF value.t = "obj" THEN fix_object(value.items, fixes)
    ELSE [v |-> value, fixes |-> fixes]

Fixed(line, fixes) == [kind |-> "Fixed", line |-> line, fixes |-> fixes, reason |-> ""]
Unchanged(line) == [kind |-> "Unchanged", line |-> line, fixes |-> <<>>, reason |-> ""]
Skipped(reason) == [kind |-> "Skipped", line |-> <<>>, fixes |-> <<>>, reason |-> reason]

\* Fixer::fix_line; po says whether the map of serde_json keeps insertion order
fix_line(line, po) ==
    LET trimmed == trim(line)
        parsed == from_str(trimmed, po)
        fixed == fix_value(parsed.v, <<>>)
        fixed_line == to_string(fixed.v)
    IN  IF trimmed = <<>> THEN Skipped("EmptyLine")
        ELSE IF ~parsed.ok THEN Skipped("InvalidJson")
        ELSE IF fixed.fixes = <<>> THEN Unchanged(fixed_line)
        ELSE Fixed(fixed_line, fixed.fixes)

\* the texts joined with one space between them
RECURSIVE join_space(_)
join_space(texts) ==
    IF Len(texts) = 0 THEN <<>>
    ELSE IF Len(texts) = 1 THEN texts[1]
    ELSE texts[1] \o <<Space>> \o join_space(Tail(texts))

RECURSIVE extract_text_content(_)
extract_text_content(value) ==
    IF value.t = "str" THEN value.s
    ELSE IF value.t = "arr"
    THEN join_space([k \in 1..Len(value.items) |-> extract_text_content(value.items[k])])
    ELSE IF value.t = "obj"
    THEN join_space([k \in 1..Len(value.items) |-> extract_text_content(value.items[k].v)])
    ELSE <<>>

\* a mutant of LintResult: the defect is reported for the first line
LintResult_first_line(line_num, kind, key, open, close) ==
    [line |-> 0, error |-> [kind |-> kind, key |-> key, open |-> open, close |-> close]]

LintResult(line_num, kind, key, open, close) ==
    [line |-> line_num, error |-> [kind |-> kind, key |-> key, open |-> open, close |-> close]]

\* Linter::lint_line
lint_line(line, line_num, required_keys, po) ==
    LET parsed == from_str(line, po)
        value == parsed.v
        missing == IF value.t = "obj"
                   THEN SelectSeq(required_keys, LAMBDA key : Len(map_get(value.items, key)) = 0)
                   ELSE <<>>
        text_content == extract_text_content(value)
        open_count == find_iter_count(text_content, ThinkOpen, 0)
        close_count == find_iter_count(text_content, ThinkClose, 0)
    IN  IF ~parsed.ok THEN <<LintResult(line_num, "InvalidJson", <<>>, 0, 0)>>
        ELSE [k \in 1..Len(missing) |-> LintResult(line_num, "MissingKey", missing[k], 0, 0)]
             \o (IF open_count # close_count
                 THEN <<LintResult(line_num, "UnbalancedThinkTags", <<>>, open_count, close_count)>>
                 ELSE <<>>)
             \o (IF contains(text_content, <<Space, Newline>>) \/ ends_with(text_content, <<Space>>)
                 THEN <<LintResult(line_num, "TrailingWhitespace", <<>>, 0, 0)>>
                 ELSE <<>>)

(***************************************************************************)
(* The extractor specification: a well-formed JSON object of nesting depth *)
(* up to MaxDepth is written out and handed to extract_content_bytes.      *)
(* Keys are written over {k, m}, string values over {x, y}.                *)
(***************************************************************************)
ExKeys == <<(<<107>>), (<<109>>)>>       \* "k", "m": the keys of an object, in order
ExLeaves == {JStr(<<120>>), JStr(<<121>>)}     \* "x", "y"

\* the values of nesting depth up to d: a leaf, or an array or object of up to two
\* children of which at most one is itself an array or object
RECURSIVE ExValues(_)
ExValues(d) ==
    IF d = 0 THEN ExLeaves
    ELSE LET inner == ExValues(d - 1)
             pairs == (ExLeaves \X inner) \cup (inner \X ExLeaves)
         IN  ExLeaves
             \cup {JArr(<<>>)} \cup {JArr(<<a>>) : a \in inner}
             \cup {JArr(<<p[1], p[2]>>) : p \in pairs}
             \cup {JObj(<<>>)} \cup {JObj(<<Member(ExKeys[1], a)>>) : a \in inner}
             \cup {JObj(<<Member(ExKeys[1], p[1]), Member(ExKeys[2], p[2])>>) : p \in pairs}

ExRecords == {v \in ExValues(MaxDepth) : v.t = "obj"}

ExInit ==
    /\ ex_value \in ExRecords
    /\ ex_input = to_string(ex_value)
    /\ ex_pc = "ready"
    /\ ex_output = <<>>

ExIdle ==
    /\ ex_value = JNull
    /\ ex_input = <<>>
    /\ ex_pc = "idle"
    /\ ex_output = <<>>

\* extract_content_bytes(line.as_bytes())
Extract ==
    /\ ex_pc = "ready"
    /\ ex_output' = extract_content_bytes(ex_input)
    /\ ex_pc' = "done"
    /\ UNCHANGED <<ex_value, ex_input, not_ex>>

ExNext == Extract

(***************************************************************************)
(* Claims about the content extractor (checked under SpecExtract).         *)
(***************************************************************************)
\* the string values of a JSON value, in document order
RECURSIVE string_values(_)
RECURSIVE string_values_of(_, _, _)
string_values_of(items, k, is_obj) ==
    IF k > Len(items) THEN <<>>
    ELSE string_values(IF is_obj THEN items[k].v ELSE items[k])
         \o string_values_of(items, k + 1, is_obj)

string_values(v) ==
    IF v.t = "str" THEN <<v.s>>
    ELSE IF v.t = "arr" THEN string_values_of(v.items, 1, FALSE)
    ELSE IF v.t = "obj" THEN string_values_of(v.items, 1, TRUE)
    ELSE <<>>

KeyBytes == {ExKeys[i][1] : i \in 1..Len(ExKeys)}

RECURSIVE with_separators(_)
with_separators(values) ==
    IF Len(values) = 0 THEN <<>>
    ELSE values[1] \o <<Space>> \o with_separators(Tail(values))

\* whether a is b with some bytes left out
RECURSIVE is_subsequence(_, _)
is_subsequence(a, b) ==
    IF Len(a) = 0 THEN TRUE
    ELSE IF Len(b) = 0 THEN FALSE
    ELSE IF a[1] = b[1] THEN is_subsequence(Tail(a), Tail(b))
    ELSE is_subsequence(a, Tail(b))

\* C9: for every well-formed JSON record, nested objects and arrays included, the
\* extractor output holds no byte of an object key.
C9_NoKeyBytes ==
    ex_pc = "done" => \A k \in 1..Len(ex_output) : ex_output[k] \notin KeyBytes

\* C10: for every well-formed JSON record, the extractor output holds every string
\* value of the record, in document order, each followed by its separator: every
\* element of an array and values at any depth.
C10_EveryStringValue ==
    ex_pc = "done" => is_subsequence(with_separators(string_values(ex_value)), ex_output)

(***************************************************************************)
(* The repair specification: one line is repaired, its repaired bytes are  *)
(* repaired once more, and the line is validated.                          *)
(***************************************************************************)
MaxWrap == 1    \* how many {"messages":[ ]} layers lie around a record

Text     == <<116, 101, 120, 116>>                            \* "text"
Messages == <<109, 101, 115, 115, 97, 103, 101, 115>>         \* "messages"
User     == <<117, 115, 101, 114>>                            \* "user"

\* the string values of the records
FxStrings ==
    { <<>>,
      <<97>>,                                         \* a
      <<97, Space>>,                                  \* a, a space
      <<97, Space, Newline, 98>>,                     \* a, a space, a newline, b
      <<97, Newline>>,                                \* a, a newline
      ThinkOpen \o <<97>>,                            \* <think>a
      <<97>> \o ThinkClose,                           \* a</think>
      ThinkOpen \o <<97>> \o ThinkClose \o <<98>>,    \* <think>a</think>b
      ThinkOpen \o <<97>> \o ThinkOpen \o <<98>>,     \* <think>a<think>b
      ThinkOpen \o <<97, Newline, Newline, 98>> }     \* <think>a, two newlines, b

FxRoles == {Assistant, Assistant \o <<Space>>, User}

FxCores ==
    {JObj(<<Member(Text, JStr(s))>>) : s \in FxStrings}
    \cup {JObj(<<Member(Role, JStr(r)), Member(Content, JStr(s))>>) : r \in FxRoles, s \in FxStrings}
    \cup {JObj(<<Member(Role, JStr(r)), Member(Content, JArr(<<JStr(s)>>))>>) :
             r \in FxRoles, s \in FxStrings}
    \cup {JObj(<<Member(<<97>>, JStr(s)), Member(<<98>>, JStr(<<97>>))>>) : s \in FxStrings}
    \cup {JArr(<<JStr(s), JNull, JBool(TRUE), JNum(<<49, 48>>)>>) : s \in FxStrings}

RECURSIVE FxValues(_)
FxValues(d) ==
    IF d = 0 THEN FxCores
    ELSE FxValues(d - 1)
         \cup {JObj(<<Member(Messages, JArr(<<v>>))>>) : v \in FxValues(d - 1)}

\* lines that are no record: empty, blank, cut short, no JSON, two values
FxOddLines ==
    { <<>>,
      <<Space, Newline>>,
      <<123, Quote, 98, 114, 111, 107, 101, 110>>,            \* {"broken
      <<110, 111, 116, Space, 123>>,                          \* not {
      <<Quote, 97, Quote, Space, Quote, 97, Quote>>,          \* "a" "a"
      ThinkOpen \o <<Space>> }                                \* <think> and a space

\* the lines: every record as serde_json writes it, the records of one string also
\* with whitespace around them and inside them
FxLines ==
    {to_string(v) : v \in FxValues(MaxWrap)}
    \cup {<<Space>> \o to_string(JObj(<<Member(Text, JStr(s))>>)) \o <<13, Newline>> : s \in FxStrings}
    \cup {<<123, Space, Quote, 97, Quote, Space, Colon, 9>> \o string_text(s) \o <<Space, RBrace>> :
             s \in FxStrings}
    \cup FxOddLines

NoFixResult == [kind |-> "None", line |-> <<>>, fixes |-> <<>>, reason |-> ""]

FxInit ==
    /\ fx_line \in FxLines
    /\ fx_preserve_order \in BOOLEAN
    /\ fx_required_keys \in {<<>>, <<Content>>}
    /\ fx_first = NoFixResult
    /\ fx_second = NoFixResult
    /\ fx_linted = FALSE
    /\ fx_lint = <<>>
    /\ fx_line_num = 0

FxIdle ==
    /\ fx_line = <<>>
    /\ fx_preserve_order = FALSE
    /\ fx_required_keys = <<>>
    /\ fx_first = NoFixResult
    /\ fx_second = NoFixResult
    /\ fx_linted = FALSE
    /\ fx_lint = <<>>
    /\ fx_line_num = 0

\* fixer.fix_line(line)
FixLine ==
    /\ fx_first = NoFixResult
    /\ fx_first' = fix_line(fx_line, fx_preserve_order)
    /\ UNCHANGED <<fx_line, fx_preserve_order, fx_required_keys, fx_second, fx_linted, fx_lint, fx_line_num, not_fx>>

\* fixer.fix_line on the bytes the first call gave back
FixAgain ==
    /\ fx_first.kind \in {"Fixed", "Unchanged"}
    /\ fx_second = NoFixResult
    /\ fx_second' = fix_line(fx_first.line, fx_preserve_order)
    /\ UNCHANGED <<fx_line, fx_preserve_order, fx_required_keys, fx_first, fx_linted, fx_lint, fx_line_num, not_fx>>

\* linter.lint_line(line, line_num)
LintLine ==
    /\ ~fx_linted
    /\ \E line_num \in 0..1 :
          /\ fx_lint' = lint_line(fx_line, line_num, fx_required_keys, fx_preserve_order)
          /\ fx_line_num' = line_num
    /\ fx_linted' = TRUE
    /\ UNCHANGED <<fx_line, fx_preserve_order, fx_required_keys, fx_first, fx_second, not_fx>>

FxNext == FixLine \/ FixAgain \/ LintLine

(***************************************************************************)
(* Claims about the repairer and the validator.                            *)
(***************************************************************************)

\* C4: repair is idempotent: when fix_line(x) gave Fixed or Unchanged with the bytes
\* y, fix_line(y) gives Unchanged and its bytes are y.
C4_RepairIsIdempotent ==
    fx_second # NoFixResult =>
        /\ fx_second.kind = "Unchanged"
        /\ fx_second.line = fx_first.line

\* C5: a record that parses and in which lint_line finds no defect is left Unchanged
\* by fix_line.
C5_CleanRecordIsUnchanged ==
    (fx_linted /\ fx_lint = <<>> /\ fx_first # NoFixResult) => fx_first.kind = "Unchanged"

\* the value fix_line parses and the value it serialises
parsed_record == from_str(trim(fx_line), fx_preserve_order)

walked_record == fix_value(parsed_record.v, <<>>).v

\* C16: fix_line puts every line in exactly one class: Skipped(EmptyLine) iff the
\* line is empty after trimming, Skipped(InvalidJson) iff it is not empty and
\* does not parse, and of the lines that parse Fixed iff a fix changed the
\* record (its list of fixes is then never empty), Unchanged iff none did.
C16_OneOutcomePerLine ==
    fx_first # NoFixResult =>
        /\ fx_first.kind \in {"Skipped", "Fixed", "Unchanged"}
        /\ (fx_first.kind = "Skipped" /\ fx_first.reason = "EmptyLine") <=> (trim(fx_line) = <<>>)
        /\ (fx_first.kind = "Skipped" /\ fx_first.reason = "InvalidJson")
              <=> (trim(fx_line) # <<>> /\ ~parsed_record.ok)
        /\ fx_first.kind = "Fixed" <=> (trim(fx_line) # <<>> /\ parsed_record.ok
                                        /\ walked_record # parsed_record.v)
        /\ fx_first.kind = "Unchanged" <=> (trim(fx_line) # <<>> /\ parsed_record.ok
                                            /\ walked_record = parsed_record.v)
        /\ fx_first.kind = "Fixed" <=> fx_first.fixes # <<>>

\* C16 witness: a record with two kinds of defect came back Fixed with two fixes.
C16_Witness ==
    /\ fx_first.kind = "Fixed"
    /\ Len(fx_first.fixes) >= 2
    /\ walked_record # parsed_record.v

\* C17: for a line that is not JSON lint_line returns exactly one defect,
\* InvalidJson with the index of the line, and no defect of a later rule.
C17_InvalidJsonIsTheOnlyDefect ==
    (fx_linted /\ ~from_str(fx_line, fx_preserve_order).ok)
    => /\ Len(fx_lint) = 1
       /\ fx_lint[1].line = fx_line_num
       /\ fx_lint[1].error.kind = "InvalidJson"

\* C17 witness: a line that is not JSON, holding an unbalanced think tag and a
\* trailing space, was linted as line 1 with the key "content" required.
C17_Witness ==
    /\ fx_linted
    /\ ~from_str(fx_line, fx_preserve_order).ok
    /\ fx_line_num = 1
    /\ fx_required_keys # <<>>
    /\ contains(fx_line, ThinkOpen)
    /\ ends_with(fx_line, <<Space>>)
    /\ Len(fx_lint) = 1

\* the sequences of a sequence of sequences, one after the other
RECURSIVE concat_all(_)
concat_all(seqs) == IF Len(seqs) = 0 THEN <<>> ELSE seqs[1] \o concat_all(Tail(seqs))

\* the members of an object say role = "assistant"
is_assistant_message(members) ==
    LET role == map_get(members, Role)
    IN  Len(role) > 0 /\ role[1].v.t = "str" /\ role[1].v.s = Assistant

\* the string contents of the assistant messages of a value, in the order of the walk
RECURSIVE assistant_contents(_)
assistant_contents(value) ==
    IF value.t = "arr"
    THEN concat_all([k \in 1..Len(value.items) |-> assistant_contents(value.items[k])])
    ELSE IF value.t = "obj"
    THEN concat_all([k \in 1..Len(value.items) |->
            IF is_assistant_message(value.items) /\ value.items[k].k = Content
            THEN IF value.items[k].v.t = "str" THEN <<value.items[k].v.s>> ELSE <<>>
            ELSE assistant_contents(value.items[k].v)])
    ELSE <<>>

\* the record that fix_line gave back, parsed again
repaired_record == from_str(fx_first.line, fx_preserve_order).v

\* C23: for an assistant content in which the opening think markers exceed the
\* closing ones by k > 0, the repair inserts one closing marker per excess opener:
\* the repaired content has as many closing as opening markers, and the fix log
\* holds AddedClosingThinkTag.
C23_ClosingTagPerExcessOpener ==
    fx_first.kind \in {"Fixed", "Unchanged"} =>
        LET before == assistant_contents(parsed_record.v)
            repaired == assistant_contents(repaired_record)
        IN  \A k \in 1..Len(before) :
                find_iter_count(before[k], ThinkOpen, 0) > find_iter_count(before[k], ThinkClose, 0)
                => /\ Len(repaired) = Len(before)
                   /\ find_iter_count(repaired[k], ThinkOpen, 0)
                         = find_iter_count(repaired[k], ThinkClose, 0)
                   /\ \E n \in 1..Len(fx_first.fixes) : fx_first.fixes[n] = "AddedClosingThinkTag"

\* the string leaves of a value: the strings inside its arrays and under the keys
\* of its objects, at any depth
RECURSIVE string_leaves(_)
string_leaves(value) ==
    IF value.t = "str" THEN {value.s}
    ELSE IF value.t = "arr"
    THEN UNION {string_leaves(value.items[k]) : k \in 1..Len(value.items)}
    ELSE IF value.t = "obj"
    THEN UNION {string_leaves(value.items[k].v) : k \in 1..Len(value.items)}
    ELSE {}

\* C24: the walk applies the two whitespace fixes to every string leaf, at any
\* depth inside objects and arrays and under any key: after Fixed or Unchanged no
\* string leaf of the output ends in whitespace or has a space right before a newline.
C24_NoWhitespaceDefectLeft ==
    fx_first.kind \in {"Fixed", "Unchanged"} =>
        \A leaf \in string_leaves(repaired_record) :
            /\ trim_end(leaf) = leaf
            /\ ~contains(leaf, <<Space, Newline>>)

\* C25: the validator runs the empty-content rule after the others: a record in
\* which a required field is present and empty yields EmptyContent.
C25_EmptyRequiredFieldIsReported ==
    (/\ fx_linted
     /\ from_str(fx_line, fx_preserve_order).ok
     /\ from_str(fx_line, fx_preserve_order).v.t = "obj"
     /\ \E n \in 1..Len(fx_required_keys) :
           \E m \in 1..Len(from_str(fx_line, fx_preserve_order).v.items) :
              /\ from_str(fx_line, fx_preserve_order).v.items[m].k = fx_required_keys[n]
              /\ from_str(fx_line, fx_preserve_order).v.items[m].v = JStr(<<>>))
    => \E r \in 1..Len(fx_lint) : fx_lint[r].error.kind = "EmptyContent"

(***************************************************************************)
(* The RPC server (mcp.rs) over the snapshot of the dataset that main.rs   *)
(* hands to it.  Method and tool names are strings; a pattern is a literal *)
(* with an optional ^ before it and an optional $ after it, and a pattern  *)
(* that opens a group it never closes does not compile.                    *)
(***************************************************************************)

\* Dataset::from_raw_parts: the Dataset of a buffer and the offsets built for it
from_raw_parts(buffer, offsets, format) ==
    [bytes |-> buffer, offsets |-> offsets, size |-> Len(buffer), format |-> format]

\* main.rs, the snapshot for the server: every record that get_line returns, each
\* followed by a newline
RECURSIVE snapshot_buf(_, _, _)
snapshot_buf(data, offsets, i) ==
    IF i >= line_count(offsets) THEN <<>>
    ELSE (IF get_line(data, offsets, i).some
          THEN get_line(data, offsets, i).s \o <<Newline>>
          ELSE <<>>)
         \o snapshot_buf(data, offsets, i + 1)

mcp_snapshot(data, format) ==
    LET buf == snapshot_buf(data, line_offsets(data), 0)
    IN  from_raw_parts(buf, line_offsets(buf), format)

MethodNotFound == -32601
InvalidParams  == -32602
InternalError  == -32603

DefaultMaxResults == 50
PreviewLines == 100
DefaultGetLinesCount == 10

NoValue == [some |-> FALSE, v |-> <<>>]
SomeValue(v) == [some |-> TRUE, v |-> v]

\* JsonRpcResponse::success and JsonRpcResponse::error
JsonRpcSuccess(id, result) ==
    [jsonrpc |-> "2.0", id |-> id, result |-> SomeValue(result), error |-> NoValue]

JsonRpcError(id, code, message) ==
    [jsonrpc |-> "2.0", id |-> id, result |-> NoValue,
     error |-> SomeValue([code |-> code, message |-> message])]

\* regex::Regex::new for the patterns of the model
Caret  == 94
Dollar == 36
LParen == 40
RParen == 41

regex_new(pattern) ==
    LET opens  == Cardinality({k \in 1..Len(pattern) : pattern[k] = LParen})
        closes == Cardinality({k \in 1..Len(pattern) : pattern[k] = RParen})
        from   == IF Len(pattern) > 0 /\ pattern[1] = Caret THEN 1 ELSE 0
        to     == IF Len(pattern) > from /\ pattern[Len(pattern)] = Dollar
                  THEN Len(pattern) - 1 ELSE Len(pattern)
    IN  IF opens # closes THEN [ok |-> FALSE, start |-> FALSE, end |-> FALSE, lit |-> <<>>]
        ELSE [ok |-> TRUE, start |-> from = 1, end |-> to < Len(pattern),
              lit |-> Slice(pattern, from, to)]

\* Regex::is_match: $ is the end of the text, ^ its start
is_match(re, text) ==
    \E p \in match_positions(text, re.lit) :
        /\ re.start => p = 0
        /\ re.end => p + Len(re.lit) = Len(text)

\* the context of match i: the records around it that get_line returns
context_of(dataset, i, context_lines) ==
    LET start == IF i >= context_lines THEN i - context_lines ELSE 0
        end   == Min2(i + context_lines + 1, line_count(dataset.offsets))
        all   == [k \in 1..(end - start) |->
                     [marker |-> (start + k - 1 = i), label |-> start + k,
                      line |-> get_line(dataset.bytes, dataset.offsets, start + k - 1)]]
        there == SelectSeq(all, LAMBDA e : e.line.some)
    IN  [k \in 1..Len(there) |->
            [marker |-> there[k].marker, label |-> there[k].label, line |-> there[k].line.s]]

\* the loop of search_dataset_impl from record i on
RECURSIVE search_from(_, _, _, _, _, _)
search_from(dataset, re, max_results, context_lines, i, matches) ==
    IF i >= line_count(dataset.offsets) \/ Len(matches) >= max_results THEN matches
    ELSE LET line == get_line(dataset.bytes, dataset.offsets, i)
         IN  IF line.some /\ is_match(re, line.s)
             THEN search_from(dataset, re, max_results, context_lines, i + 1,
                              Append(matches,
                                     [index |-> i,
                                      text |-> IF context_lines > 0 THEN <<>> ELSE line.s,
                                      context |-> IF context_lines > 0
                                                  THEN context_of(dataset, i, context_lines)
                                                  ELSE <<>>]))
             ELSE search_from(dataset, re, max_results, context_lines, i + 1, matches)

\* search_dataset_impl: Err when the pattern does not compile
search_dataset_impl(dataset, pattern, max_results, context_lines) ==
    LET re == regex_new(pattern)
    IN  IF ~re.ok THEN [ok |-> FALSE, matches |-> <<>>]
        ELSE [ok |-> TRUE,
              matches |-> search_from(dataset, re, max_results, context_lines, 0, <<>>)]

\* args.get(name).and_then(as_u64).unwrap_or(default)
u64_or(arg, default) == IF arg.some THEN arg.v ELSE default

\* what the blocking pool hands back: Ok(value), or a JoinError when the closure
\* panicked
Joined(value) == [joined |-> TRUE, value |-> value]
JoinError == [joined |-> FALSE, value |-> <<>>]

\* the closure tool_search_dataset gives to spawn_blocking
search_closure(dataset, req) ==
    search_dataset_impl(dataset, req.query.v, u64_or(req.max_results, DefaultMaxResults),
                        u64_or(req.context_lines, 0))

\* the closure tool_dedup_scan gives to spawn_blocking; of the DedupResult the
\* response keeps the strategy and total_lines here
dedup_closure(dataset, req) ==
    [strategy |-> SimHash(DefaultThreshold), total_lines |-> line_count(dataset.offsets)]

\* A mutant of the answer to a missing query: the code of an internal error.
missing_query_internal(id) == JsonRpcError(id, InternalError, "Missing required parameter: query")

missing_query(id) == JsonRpcError(id, InvalidParams, "Missing required parameter: query")

\* tool_search_dataset after the join
search_response(id, query, total_lines, result) ==
    IF ~result.joined THEN JsonRpcError(id, InternalError, "Task join error")
    ELSE IF ~result.value.ok THEN JsonRpcError(id, InternalError, "Search error")
    ELSE IF Len(result.value.matches) = 0
    THEN JsonRpcSuccess(id, [kind |-> "No matches found", query |-> query])
    ELSE JsonRpcSuccess(id,
            [kind |-> "Found", count |-> Len(result.value.matches), query |-> query,
             total_lines |-> total_lines,
             body |-> [k \in 1..Len(result.value.matches) |->
                          [label |-> result.value.matches[k].index + 1,
                           text |-> result.value.matches[k].text,
                           context |-> result.value.matches[k].context]]])

\* tool_dedup_scan after the join
dedup_response(id, result) ==
    IF ~result.joined THEN JsonRpcError(id, InternalError, "Dedup scan failed")
    ELSE JsonRpcSuccess(id, [kind |-> "Dedup Scan Results", metadata |-> result.value])

\* the records from start on that get_line returns, count at most, labelled
labelled_lines(dataset, start, count) ==
    LET end == Min2(start + count, line_count(dataset.offsets))
        all == [k \in 1..(IF end > start THEN end - start ELSE 0) |->
                   [label |-> start + k,
                    line |-> get_line(dataset.bytes, dataset.offsets, start + k - 1)]]
        there == SelectSeq(all, LAMBDA e : e.line.some)
    IN  [k \in 1..Len(there) |-> [label |-> there[k].label, text |-> there[k].line.s]]

tool_dataset_info(id, dataset) ==
    JsonRpcSuccess(id, [kind |-> "Dataset", format |-> dataset.format,
                        line_count |-> line_count(dataset.offsets),
                        size_bytes |-> dataset.size])

tool_get_lines(id, dataset) ==
    JsonRpcSuccess(id, [kind |-> "Lines", line_count |-> line_count(dataset.offsets),
                        lines |-> labelled_lines(dataset, 0, DefaultGetLinesCount)])

handle_resources_read(id, dataset) ==
    JsonRpcSuccess(id, [kind |-> "contents",
                        lines |-> labelled_lines(dataset, 0, PreviewLines)])

handle_resources_list(id, dataset) ==
    JsonRpcSuccess(id, [kind |-> "resources", format |-> dataset.format,
                        line_count |-> line_count(dataset.offsets)])

ToolNames == {"search_dataset", "dataset_info", "get_lines", "dedup_scan"}

\* whether the handler of the request hands work to the blocking pool
spawns_blocking(req) ==
    /\ req.method = "tools/call"
    /\ \/ req.tool = "search_dataset" /\ req.query.some
       \/ req.tool = "dedup_scan"

\* handle_tools_call for the tools that answer without the blocking pool
handle_tools_call(req, dataset) ==
    IF req.tool = "search_dataset" THEN missing_query(req.id)
    ELSE IF req.tool = "dataset_info" THEN tool_dataset_info(req.id, dataset)
    ELSE IF req.tool = "get_lines" THEN tool_get_lines(req.id, dataset)
    ELSE JsonRpcError(req.id, InvalidParams, "Unknown tool")

\* handle_jsonrpc for the requests that answer without the blocking pool
handle_jsonrpc(req, dataset) ==
    IF req.method = "initialize"
    THEN JsonRpcSuccess(req.id, [kind |-> "InitializeResult", protocol_version |-> "2024-11-05"])
    ELSE IF req.method = "initialized" THEN JsonRpcSuccess(req.id, [kind |-> "empty"])
    ELSE IF req.method = "tools/list" THEN JsonRpcSuccess(req.id, [kind |-> "tools", tools |-> ToolNames])
    ELSE IF req.method = "tools/call" THEN handle_tools_call(req, dataset)
    ELSE IF req.method = "resources/list" THEN handle_resources_list(req.id, dataset)
    ELSE IF req.method = "resources/read" THEN handle_resources_read(req.id, dataset)
    ELSE JsonRpcError(req.id, MethodNotFound, "Method not found")

\* the response after the join of the blocking task
joined_response(req, dataset, result) ==
    IF req.tool = "search_dataset"
    THEN search_response(req.id, req.query.v, line_count(dataset.offsets), result)
    ELSE dedup_response(req.id, result)

(***************************************************************************)
(* The RPC specification: every client has one request in flight; the      *)
(* handlers and the blocking workers of the clients interleave freely.     *)
(***************************************************************************)
MaxResults == 2

Clients == {1, 2}

NoId == [some |-> FALSE, v |-> 0]
SomeId(n) == [some |-> TRUE, v |-> n]

Request(id, method, tool, query, max_results, context_lines) ==
    [id |-> id, method |-> method, tool |-> tool, query |-> query,
     max_results |-> max_results, context_lines |-> context_lines]

\* the sources the application had opened: records a, ab, b, with and without a
\* final newline, and one record that is no UTF-8
RpcSources ==
    { <<97>>,
      <<97, Newline>>,
      <<97, 98, Newline, 98, Newline, 97>>,
      <<98, Newline, 169, Newline, 97, 98, Newline>> }

RpcQueries == {<<97>>, <<97, Dollar>>, <<LParen>>}

RpcRequests(ids) ==
    {Request(id, m, "", NoValue, NoValue, NoValue) :
        id \in ids,
        m \in {"initialize", "initialized", "tools/list", "resources/list", "resources/read",
               "prompts/list"}}
    \cup {Request(id, "tools/call", t, NoValue, NoValue, NoValue) :
             id \in ids, t \in ToolNames \cup {"", "no_such_tool"}}
    \cup {Request(id, "tools/call", "search_dataset", SomeValue(q), mr, NoValue) :
             id \in ids, q \in RpcQueries,
             mr \in {NoValue} \cup {SomeValue(n) : n \in 0..MaxResults}}
    \cup {Request(id, "tools/call", "search_dataset", SomeValue(q), NoValue, SomeValue(1)) :
             id \in ids, q \in {<<97>>, <<97, Dollar>>}}

\* the ids a client puts on its requests: two clients may use the same id
ClientIds(c) == IF c = 1 THEN {NoId, SomeId(1)} ELSE {SomeId(1), SomeId(2)}

NoJoin == [joined |-> FALSE, value |-> "not spawned"]

RpcInit ==
    /\ rpc_dataset \in {mcp_snapshot(src, "JSONL") : src \in RpcSources}
    /\ rpc_req \in {r \in [Clients -> RpcRequests(ClientIds(1) \cup ClientIds(2))] :
                       \A c \in Clients : r[c].id \in ClientIds(c)}
    /\ rpc_pc = [c \in Clients |-> "received"]
    /\ rpc_join = [c \in Clients |-> NoJoin]
    /\ rpc_resp = [c \in Clients |-> <<>>]
    /\ rpc_order = <<>>
    /\ rpc_panicked = {}

RpcIdle ==
    /\ rpc_dataset = from_raw_parts(<<>>, <<0>>, "JSONL")
    /\ rpc_req = <<>>
    /\ rpc_pc = <<>>
    /\ rpc_join = <<>>
    /\ rpc_resp = <<>>
    /\ rpc_order = <<>>
    /\ rpc_panicked = {}

\* A mutant of the join: every handler awaits the handle of the first client.
join_handle_shared(c) == 1

\* the JoinHandle a handler awaits is the one its own spawn_blocking returned
join_handle(c) == c

\* handle_jsonrpc up to its response, or up to spawn_blocking
Dispatch(c) ==
    /\ rpc_pc[c] = "received"
    /\ IF spawns_blocking(rpc_req[c])
       THEN /\ rpc_pc' = [rpc_pc EXCEPT ![c] = "blocking"]
            /\ UNCHANGED <<rpc_resp, rpc_order>>
       ELSE /\ rpc_pc' = [rpc_pc EXCEPT ![c] = "responded"]
            /\ rpc_resp' = [rpc_resp EXCEPT ![c] = Append(@, handle_jsonrpc(rpc_req[c], rpc_dataset))]
            /\ rpc_order' = Append(rpc_order, c)
    /\ UNCHANGED <<rpc_dataset, rpc_req, rpc_join, rpc_panicked, not_rpc>>

\* the closure on the blocking pool: it returns, or it panics
Worker(c) ==
    /\ rpc_pc[c] = "blocking"
    /\ \E panicked \in BOOLEAN :
          /\ rpc_join' = [rpc_join EXCEPT ![join_handle(c)] =
                             IF panicked THEN JoinError
                             ELSE IF rpc_req[c].tool = "search_dataset"
                             THEN Joined(search_closure(rpc_dataset, rpc_req[c]))
                             ELSE Joined(dedup_closure(rpc_dataset, rpc_req[c]))]
          /\ rpc_panicked' = IF panicked THEN rpc_panicked \cup {c} ELSE rpc_panicked
    /\ rpc_pc' = [rpc_pc EXCEPT ![c] = "joined"]
    /\ UNCHANGED <<rpc_dataset, rpc_req, rpc_resp, rpc_order, not_rpc>>

\* the handler after .await of the blocking task
Respond(c) ==
    /\ rpc_pc[c] = "joined"
    /\ rpc_resp' = [rpc_resp EXCEPT ![c] =
                       Append(@, joined_response(rpc_req[c], rpc_dataset, rpc_join[c]))]
    /\ rpc_order' = Append(rpc_order, c)
    /\ rpc_pc' = [rpc_pc EXCEPT ![c] = "responded"]
    /\ UNCHANGED <<rpc_dataset, rpc_req, rpc_join, rpc_panicked, not_rpc>>

DispatchAny == \E c \in Clients : Dispatch(c)
WorkerAny == \E c \in Clients : Worker(c)
RespondAny == \E c \in Clients : Respond(c)

RpcNext == DispatchAny \/ WorkerAny \/ RespondAny

(***************************************************************************)
(* Claims about the RPC server.                                            *)
(***************************************************************************)
responded(c) == rpc_pc[c] = "responded"

response_of(c) == rpc_resp[c][1]

has_error_code(resp, code) ==
    /\ resp.error.some
    /\ resp.error.v.code = code
    /\ ~resp.result.some

KnownMethods ==
    {"initialize", "initialized", "tools/list", "tools/call", "resources/list", "resources/read"}

\* C11: an unknown method is answered with -32601; a tools/call that names an
\* unknown tool, or search_dataset without query, with -32602; a pattern that does
\* not compile or a failed join of the worker with -32603; each is an error
\* response, and the handlers of the other requests can still go on.
C11_ErrorCodes ==
    \A c \in Clients :
        /\ responded(c) =>
              LET req == rpc_req[c]
                  resp == response_of(c)
              IN  /\ req.method \notin KnownMethods => has_error_code(resp, -32601)
                  /\ (req.method = "tools/call" /\ req.tool \notin ToolNames)
                        => has_error_code(resp, -32602)
                  /\ (req.method = "tools/call" /\ req.tool = "search_dataset" /\ ~req.query.some)
                        => has_error_code(resp, -32602)
                  /\ (req.method = "tools/call" /\ req.tool = "search_dataset"
                      /\ req.query.some /\ req.query.v = <<LParen>>)
                        => has_error_code(resp, -32603)
                  /\ (spawns_blocking(req) /\ c \in rpc_panicked)
                        => has_error_code(resp, -32603)
        /\ ~responded(c) => ENABLED (Dispatch(c) \/ Worker(c) \/ Respond(c))

\* C11 witness: a join failure was answered with -32603, and a request answered
\* after it got its result.
C11_Witness ==
    \E c, d \in Clients :
        /\ c # d
        /\ rpc_order = <<c, d>>
        /\ c \in rpc_panicked
        /\ has_error_code(response_of(c), -32603)
        /\ response_of(d).result.some

\* the response of a request whose handler runs alone
solo_response(req, dataset, panicked) ==
    IF spawns_blocking(req)
    THEN joined_response(req, dataset,
                         IF panicked THEN JoinError
                         ELSE IF req.tool = "search_dataset"
                         THEN Joined(search_closure(dataset, req))
                         ELSE Joined(dedup_closure(dataset, req)))
    ELSE handle_jsonrpc(req, dataset)

record_content(dataset, i) ==
    LET start == dataset.offsets[i + 1]
        end   == IF i + 1 < Len(dataset.offsets) THEN dataset.offsets[i + 2] - 1
                 ELSE IF Len(dataset.bytes) > start /\ dataset.bytes[Len(dataset.bytes)] = Newline
                 THEN Len(dataset.bytes) - 1
                 ELSE Len(dataset.bytes)
    IN  Slice(dataset.bytes, start, end)

matching_records(dataset, pattern) ==
    {i \in 0..(line_count(dataset.offsets) - 1) :
        is_match(regex_new(pattern), record_content(dataset, i))}

\* the n smallest members of a set of indices, ascending
RECURSIVE first_of(_, _)
first_of(S, n) ==
    IF n = 0 \/ S = {} THEN <<>>
    ELSE <<SetMin(S)>> \o first_of(S \ {SetMin(S)}, n - 1)

response_labels(resp) ==
    IF resp.result.some /\ resp.result.v.kind = "Found"
    THEN [k \in 1..Len(resp.result.v.body) |-> resp.result.v.body[k].label]
    ELSE <<>>

\* C13: search_dataset with a pattern that compiles and max_results = N returns
\* the first min(N, number of matching records) records that match, in ascending
\* order, each labelled with its index + 1.
C13_FirstMatchingRecords ==
    \A c \in Clients :
        (/\ responded(c)
         /\ rpc_req[c].tool = "search_dataset" /\ rpc_req[c].query.some
         /\ regex_new(rpc_req[c].query.v).ok
         /\ rpc_req[c].max_results.some
         /\ c \notin rpc_panicked)
        => LET expected == first_of(matching_records(rpc_dataset, rpc_req[c].query.v),
                                    rpc_req[c].max_results.v)
           IN  /\ response_of(c).result.some
               /\ response_labels(response_of(c)) = [k \in 1..Len(expected) |-> expected[k] + 1]

(***************************************************************************)
(* streaming.rs: open_hf_stream.  The remote Parquet file is a list of     *)
(* row-groups, each a list of rows; the footer (RemoteParquetMeta) gives   *)
(* the offset, the compressed size and the row count of each.  A range     *)
(* read is answered or fails, as the server and the network decide.        *)
(* bytes_to_jsonl decodes every row-group the footer of its bytes lists,   *)
(* so on the bytes of the whole file it yields the rows of all row-groups; *)
(* on a slice that starts after byte 0 the offsets of the footer no longer *)
(* point at the column chunks and it fails.                                *)
(***************************************************************************)
MaxGroups == 2       \* most row-groups of the remote file
MaxRows == 2         \* most rows of a row-group

Padding == 1024          \* fetch_row_group: bytes fetched around the row-group
FooterPadding == 64      \* decode_row_group_bytes: bytes fetched before the row-group
FullDownloadLimit == 104857600   \* 100 * 1024 * 1024
RowBytes == 36           \* compressed bytes of one row in the modelled files
FirstOffset == 4         \* file_offset of the first column chunk, after the magic

RowGroupMeta(offset, compressed_size, num_rows) ==
    [offset |-> offset, compressed_size |-> compressed_size, num_rows |-> num_rows]

\* the JSON line of row j of row-group g
row_line(g, j) == <<123, 48 + g, 48 + j, 125>>

rows_of_group(meta, g) == [j \in 1..meta[g + 1].num_rows |-> row_line(g, j - 1)]

RECURSIVE rows_from(_, _)
rows_from(meta, g) ==
    IF g >= Len(meta) THEN <<>> ELSE rows_of_group(meta, g) \o rows_from(meta, g + 1)

\* the rows of the whole file, in file order
file_rows(meta) == rows_from(meta, 0)

RECURSIVE total_rows_from(_, _)
total_rows_from(meta, g) ==
    IF g >= Len(meta) THEN 0 ELSE meta[g + 1].num_rows + total_rows_from(meta, g + 1)

\* RemoteParquetMeta.total_rows
total_rows(meta) == total_rows_from(meta, 0)

saturating_sub(a, b) == IF a >= b THEN a - b ELSE 0

LinesOk(lines) == [ok |-> TRUE, lines |-> lines]
LinesErr == [ok |-> FALSE, lines |-> <<>>]

\* bytes_to_jsonl on the bytes start..file_size-1 of the file
bytes_to_jsonl(meta, start) ==
    IF start = 0 THEN LinesOk(file_rows(meta)) ELSE LinesErr

\* fetch_full_file_as_jsonl; read_ok is the outcome of its range read
fetch_full_file_as_jsonl(meta, read_ok) ==
    IF ~read_ok THEN LinesErr ELSE bytes_to_jsonl(meta, 0)

\* decode_row_group_bytes; the outcomes of its range read and of the fallback's
decode_row_group_bytes(meta, file_size, rg_index, read_ok, full_ok) ==
    LET start == saturating_sub(meta[rg_index + 1].offset, FooterPadding)
    IN  IF ~read_ok THEN LinesErr
        ELSE IF bytes_to_jsonl(meta, start).ok THEN bytes_to_jsonl(meta, start)
        ELSE IF file_size < FullDownloadLimit
        THEN fetch_full_file_as_jsonl(meta, full_ok)
        ELSE LinesErr

\* fetch_row_group; the outcomes of the three range reads it can make
fetch_row_group(meta, file_size, rg_index, range_ok, read_ok, full_ok) ==
    IF rg_index >= Len(meta) THEN LinesErr
    ELSE IF ~range_ok THEN LinesErr
    ELSE decode_row_group_bytes(meta, file_size, rg_index, read_ok, full_ok)

\* the ranges fetch_row_group asks for, given the outcomes of its reads
ranges_read(meta, file_size, rg_index, range_ok, read_ok) ==
    LET rg == meta[rg_index + 1]
        first == <<saturating_sub(rg.offset, Padding),
                   Min2(rg.offset + rg.compressed_size + Padding, file_size - 1)>>
        start == saturating_sub(rg.offset, FooterPadding)
        second == <<start, file_size - 1>>
    IN  IF ~range_ok THEN <<first>>
        ELSE IF ~read_ok \/ bytes_to_jsonl(meta, start).ok
                \/ file_size >= FullDownloadLimit THEN <<first, second>>
        ELSE <<first, second, <<0, file_size - 1>> >>

\* whether one of the range reads that were made failed
a_read_failed(meta, file_size, rg_index, range_ok, read_ok, full_ok) ==
    LET made == Len(ranges_read(meta, file_size, rg_index, range_ok, read_ok))
    IN  \/ ~range_ok
        \/ made >= 2 /\ ~read_ok
        \/ made >= 3 /\ ~full_ok

StreamOk(dataset) == [ok |-> TRUE, dataset |-> dataset]
StreamErr == [ok |-> FALSE, dataset |-> from_raw_parts(<<>>, <<>>, "")]
NoStream == [ok |-> FALSE, dataset |-> from_raw_parts(<<>>, <<>>, "none")]

\* open_hf_stream, after the loop: the Dataset of the collected lines
build_dataset(all_lines) ==
    LET buffer == JoinLines(all_lines)
    IN  StreamOk(from_raw_parts(buffer, line_offsets(buffer), "Parquet"))

\* the footers of the modelled files: the first row-group starts after the magic,
\* a later one right after the one before it or further on
NextOffsets(m) ==
    IF m = <<>> THEN {FirstOffset}
    ELSE {m[Len(m)].offset + m[Len(m)].compressed_size, Padding * 2 * Len(m)}

RECURSIVE MetasOf(_)
MetasOf(k) ==
    IF k = 0 THEN {<<>>}
    ELSE UNION {{Append(m, RowGroupMeta(offset, RowBytes * n, n)) :
                    offset \in NextOffsets(m), n \in 1..MaxRows} : m \in MetasOf(k - 1)}

StMetas == UNION {MetasOf(k) : k \in 0..MaxGroups}

StFileSizes == {Padding * 8, FullDownloadLimit}

StInit ==
    /\ st_meta \in StMetas
    /\ st_file_size \in StFileSizes
    /\ st_pc = "start"
    /\ st_i = 0
    /\ st_all_lines = <<>>
    /\ st_result = NoStream
    /\ st_ranges = <<>>
    /\ st_read_failed = FALSE

StIdle ==
    /\ st_meta = <<>>
    /\ st_file_size = 0
    /\ st_pc = "idle"
    /\ st_i = 0
    /\ st_all_lines = <<>>
    /\ st_result = NoStream
    /\ st_ranges = <<>>
    /\ st_read_failed = FALSE

\* open_hf_stream up to the first fetch: connect and read_metadata, each of
\* which fails when the server does; with no row-group the Dataset is built at once
OpenStream ==
    /\ st_pc = "start"
    /\ \E connected \in BOOLEAN, footer_read \in BOOLEAN :
          IF ~connected \/ ~footer_read
          THEN st_pc' = "done" /\ st_result' = StreamErr
          ELSE IF Len(st_meta) = 0
          THEN st_pc' = "done" /\ st_result' = build_dataset(<<>>)
          ELSE st_pc' = "fetching" /\ st_result' = st_result
    /\ UNCHANGED <<st_meta, st_file_size, st_i, st_all_lines, st_ranges, st_read_failed, not_st>>

\* one fetch_row_group(&meta, i).await of open_hf_stream (the first row-group
\* with ?, the later ones in the loop), and the build of the Dataset once the
\* loop is left
FetchRowGroup ==
    /\ st_pc = "fetching"
    /\ \E range_ok \in BOOLEAN, read_ok \in BOOLEAN, full_ok \in BOOLEAN :
          LET fetched == fetch_row_group(st_meta, st_file_size, st_i, range_ok, read_ok, full_ok)
              lines == st_all_lines \o fetched.lines
          IN  /\ st_ranges' = st_ranges \o ranges_read(st_meta, st_file_size, st_i, range_ok, read_ok)
              /\ st_read_failed' = (st_read_failed
                                    \/ a_read_failed(st_meta, st_file_size, st_i, range_ok, read_ok, full_ok))
              /\ IF ~fetched.ok /\ st_i = 0
                 THEN /\ st_pc' = "done"
                      /\ st_result' = StreamErr
                      /\ UNCHANGED <<st_i, st_all_lines>>
                 ELSE IF ~fetched.ok
                 THEN /\ st_pc' = "done"
                      /\ st_result' = build_dataset(st_all_lines)
                      /\ UNCHANGED <<st_i, st_all_lines>>
                 ELSE /\ st_all_lines' = lines
                      /\ st_i' = st_i + 1
                      /\ IF st_i + 1 >= Len(st_meta)
                         THEN st_pc' = "done" /\ st_result' = build_dataset(lines)
                         ELSE st_pc' = "fetching" /\ st_result' = st_result
    /\ UNCHANGED <<st_meta, st_file_size, not_st>>

StNext == OpenStream \/ FetchRowGroup

\* C14: when a range read of a row-group failed, of the first or of a later one,
\* open_hf_stream returns an error and no Dataset.
C14_FailedReadFailsOpen ==
    (st_pc = "done" /\ st_read_failed) => ~st_result.ok

\* C15: a successful open over k >= 1 row-groups returns a Dataset of format
\* Parquet whose records are the rows of the row-groups, each once, so that its
\* record count is the sum of the row counts.
C15_RecordCountIsRowSum ==
    (st_pc = "done" /\ st_result.ok /\ Len(st_meta) >= 1)
    => /\ st_result.dataset.format = "Parquet"
       /\ line_count(st_result.dataset.offsets) = total_rows(st_meta)
       /\ st_all_lines = file_rows(st_meta)

(***************************************************************************)
(* commands.rs and run_tui_loop of main.rs: producers send TuiCommands on  *)
(* an unbounded mpsc channel; every turn of the loop takes commands with   *)
(* try_recv until the channel is empty, renders, handles one key event if  *)
(* there is one, and leaves when should_quit is set.  A command is written *)
(* with the producer that sent it and its number among that producer's.    *)
(***************************************************************************)
MaxSends == 3        \* most commands the producers send, all together

Producers == {1, 2}

ViewportDefault == 20    \* App::new: viewport_height
Borders == 4             \* set_viewport_height: rows of borders and status bar
TerminalHeight == 6      \* frame.area().height of the modelled terminal
CbLineCount == 4         \* dataset.line_count() of the modelled dataset

TuiCommand(kind, arg) == [kind |-> kind, arg |-> arg]

\* ViewMode::toggle
toggle(view_mode) ==
    CASE view_mode = "Text" -> "TokenXray"
      [] view_mode = "TokenXray" -> "Tree"
      [] OTHER -> "Text"

UsizeBits == 8       \* the width of usize in the model

UsizeMax == 2 ^ UsizeBits - 1

\* a + b of two usize in a build that does not check overflow
usize_add(a, b) == (a + b) % (UsizeMax + 1)

add_overflows(a, b) == a + b > UsizeMax

\* App::scroll_down
scroll_down(app, n) ==
    LET max_scroll == saturating_sub(CbLineCount, app.viewport_height)
    IN  [app EXCEPT !.scroll = Min2(usize_add(app.scroll, n), max_scroll),
                    !.selected_line = Min2(usize_add(app.selected_line, n),
                                           saturating_sub(CbLineCount, 1))]

\* App::scroll_up
scroll_up(app, n) ==
    [app EXCEPT !.scroll = saturating_sub(app.scroll, n),
                !.selected_line = saturating_sub(app.selected_line, n)]

\* App::goto_top
goto_top(app) == [app EXCEPT !.scroll = 0, !.selected_line = 0]

\* App::goto_bottom
goto_bottom(app) ==
    [app EXCEPT !.scroll = saturating_sub(CbLineCount, app.viewport_height),
                !.selected_line = saturating_sub(CbLineCount, 1)]

\* apply_tui_command
apply_tui_command(app, cmd) ==
    CASE cmd.kind = "JumpToLine" ->
            LET line == Min2(cmd.arg, saturating_sub(CbLineCount, 1))
            IN  [app EXCEPT !.selected_line = line,
                            !.scroll = saturating_sub(line, app.viewport_height \div 2)]
      [] cmd.kind = "ToggleView" -> [app EXCEPT !.view_mode = toggle(app.view_mode)]
      [] cmd.kind = "SetViewMode" -> [app EXCEPT !.view_mode = cmd.arg]
      [] cmd.kind = "ShowDetail" -> [app EXCEPT !.show_detail = cmd.arg]
      [] cmd.kind = "ScrollDown" -> scroll_down(app, cmd.arg)
      [] cmd.kind = "ScrollUp" -> scroll_up(app, cmd.arg)
      [] cmd.kind = "GotoTop" -> goto_top(app)
      [] OTHER -> goto_bottom(app)

\* the key arm of run_tui_loop
handle_key(app, key) ==
    CASE key = "q" -> [app EXCEPT !.should_quit = TRUE]
      [] key = "j" -> scroll_down(app, 1)
      [] key = "Tab" -> [app EXCEPT !.view_mode = toggle(app.view_mode)]
      [] key = "Enter" -> [app EXCEPT !.show_detail = ~app.show_detail]
      [] OTHER -> app

Keys == {"none", "q", "j"}

\* the commands a producer chooses its n-th command from: the first producer
\* sends the navigation ones, the second the ones that change the view
CommandsOf(p, n) ==
    CASE p = 1 /\ n % 2 = 1 -> {TuiCommand("JumpToLine", 3), TuiCommand("ScrollDown", 1)}
      [] p = 1 /\ n % 2 = 0 -> {TuiCommand("ScrollUp", 1), TuiCommand("GotoBottom", 0)}
      [] p = 2 /\ n % 2 = 1 -> {TuiCommand("ToggleView", 0), TuiCommand("SetViewMode", "Tree")}
      [] OTHER -> {TuiCommand("ShowDetail", TRUE), TuiCommand("GotoTop", 0)}

Message(p, n, cmd) == [from |-> p, n |-> n, cmd |-> cmd]

\* the messages of producer p in a sequence of messages
sent_by(log, p) == SelectSeq(log, LAMBDA msg : msg.from = p)

\* App::new
new_app ==
    [selected_line |-> 0, scroll |-> 0, viewport_height |-> ViewportDefault,
     view_mode |-> "Text", show_detail |-> FALSE, should_quit |-> FALSE]

CbInit ==
    /\ cb_channel = <<>>
    /\ cb_app = new_app
    /\ cb_pc = "drain"
    /\ cb_sent = <<>>
    /\ cb_applied = <<>>
    /\ cb_tick_sent = 0

CbIdle ==
    /\ cb_channel = <<>>
    /\ cb_app = new_app
    /\ cb_pc = "idle"
    /\ cb_sent = <<>>
    /\ cb_applied = <<>>
    /\ cb_tick_sent = 0

\* UnboundedSender::send: the command joins the channel behind those sent before;
\* it fails once the receiver is gone
Send(p) ==
    /\ cb_pc \in {"drain", "render", "poll"}
    /\ Len(cb_sent) < MaxSends
    /\ \E cmd \in CommandsOf(p, Len(sent_by(cb_sent, p)) + 1) :
          LET msg == Message(p, Len(sent_by(cb_sent, p)) + 1, cmd)
          IN  /\ cb_channel' = Append(cb_channel, msg)
              /\ cb_sent' = Append(cb_sent, msg)
    /\ UNCHANGED <<cb_app, cb_pc, cb_applied, cb_tick_sent, not_cb>>

SendAny == \E p \in Producers : Send(p)

\* a mutant of the position try_recv takes from: the newest command
recv_position_newest(channel) == Len(channel)

\* the position try_recv takes from: the oldest command
recv_position(channel) == 1

remove_at(s, k) == [j \in 1..(Len(s) - 1) |-> IF j < k THEN s[j] ELSE s[j + 1]]

\* while let Ok(cmd) = rx.try_recv() { apply_tui_command(&mut app, cmd) }: one turn
Recv ==
    /\ cb_pc = "drain"
    /\ cb_channel # <<>>
    /\ LET k == recv_position(cb_channel)
       IN  /\ cb_app' = apply_tui_command(cb_app, cb_channel[k].cmd)
           /\ cb_applied' = Append(cb_applied, cb_channel[k])
           /\ cb_channel' = remove_at(cb_channel, k)
    /\ UNCHANGED <<cb_pc, cb_sent, cb_tick_sent, not_cb>>

\* try_recv returns Err(Empty): the while let ends
DrainEmpty ==
    /\ cb_pc = "drain"
    /\ cb_channel = <<>>
    /\ cb_pc' = "render"
    /\ UNCHANGED <<cb_channel, cb_app, cb_sent, cb_applied, cb_tick_sent, not_cb>>

\* tui.terminal().draw(..): ui::render sets the viewport height from the frame
Render ==
    /\ cb_pc = "render"
    /\ cb_app' = [cb_app EXCEPT !.viewport_height = saturating_sub(TerminalHeight, Borders)]
    /\ cb_pc' = "poll"
    /\ UNCHANGED <<cb_channel, cb_sent, cb_applied, cb_tick_sent, not_cb>>

\* event::poll, the key arm, and the check of should_quit that ends the loop or
\* starts the next turn
Poll ==
    /\ cb_pc = "poll"
    /\ \E key \in Keys :
          LET app == handle_key(cb_app, key)
          IN  /\ cb_app' = app
              /\ cb_pc' = IF app.should_quit THEN "done" ELSE "drain"
    /\ cb_tick_sent' = Len(cb_sent)
    /\ UNCHANGED <<cb_channel, cb_sent, cb_applied, not_cb>>

\* the steps of the loop, which runs on a thread of its own
CbLoop == Recv \/ DrainEmpty \/ Render \/ Poll

CbNext == SendAny \/ Recv \/ DrainEmpty \/ Render \/ Poll

MaxBatch == 2        \* most records of the input file

\* the lines of the modelled input files
BfLines ==
    { <<123, Quote, 97, Quote, Colon, Quote, 120, Space, Quote, RBrace>>,   \* {"a":"x "}
      <<Quote, 97, Quote>>,                                              \* "a"
      <<123>>,                                                           \* {
      <<169>>,                                                           \* not UTF-8
      <<>> }                                                             \* an empty line

BfSources ==
    {JoinLines(lines) \o tail : lines \in SeqsUpTo(BfLines, MaxBatch) \ {<<>>},
                                tail \in {<<>>, <<Newline>>}} \ {<<>>}

\* writeln!(writer, "{}", text): the bytes that reach the file
writeln(text) == text \o <<Newline>>

Written(i, text) == [index |-> i, bytes |-> text]

\* the match on the FixResult of a record: what is written for it
match_result(i, line, result, skip_invalid) ==
    IF result.kind \in {"Fixed", "Unchanged"} THEN <<Written(i, result.line)>>
    ELSE IF skip_invalid THEN <<>>
    ELSE <<Written(i, line)>>

\* what the loop of run_fix_mode writes for record i: nothing, or one writeln
record_output(source, i, skip_invalid) ==
    LET line == get_line(source, line_offsets(source), i)
    IN  IF ~line.some THEN <<>>
        ELSE match_result(i, line.s, fix_line(line.s, FALSE), skip_invalid)

\* a mutant of the ? after a file operation: the error is dropped
question_mark_ignored(ok, next) == next

\* the ? after a file operation: where the run goes on, "failed" when it returns Err
question_mark(ok, next) == IF ok THEN next ELSE "failed"

BfInit ==
    /\ bf_source \in BfSources
    /\ bf_in_place \in BOOLEAN
    /\ bf_skip_invalid \in BOOLEAN
    /\ bf_pc = "create"
    /\ bf_i = 0
    /\ bf_temp = <<>>
    /\ bf_original = bf_source
    /\ bf_result = "running"
    /\ bf_written = <<>>
    /\ bf_io_error = "none"
    /\ bf_flushed = FALSE
    /\ bf_renamed = FALSE

BfIdle ==
    /\ bf_source = <<>>
    /\ bf_in_place = FALSE
    /\ bf_skip_invalid = FALSE
    /\ bf_pc = "idle"
    /\ bf_i = 0
    /\ bf_temp = <<>>
    /\ bf_original = <<>>
    /\ bf_result = "running"
    /\ bf_written = <<>>
    /\ bf_io_error = "none"
    /\ bf_flushed = FALSE
    /\ bf_renamed = FALSE

\* where the run stands after a step that leads to next unless it failed
after(next) ==
    /\ bf_pc' = (IF next = "failed" THEN "done" ELSE next)
    /\ bf_result' = (IF next = "failed" THEN "err" ELSE IF next = "done" THEN "ok" ELSE bf_result)

\* File::create(&temp_path)?
CreateOutput ==
    /\ bf_pc = "create"
    /\ \E ok \in BOOLEAN :
          /\ after(IF ok THEN "records" ELSE "failed")
          /\ bf_io_error' = IF ok THEN "none" ELSE "create"
    /\ UNCHANGED <<bf_source, bf_in_place, bf_skip_invalid, bf_i, bf_temp, bf_original,
                   bf_written, bf_flushed, bf_renamed, not_bf>>

\* one turn of the loop over the records
FixRecord ==
    /\ bf_pc = "records"
    /\ bf_i < line_count(line_offsets(bf_source))
    /\ LET next == IF bf_i + 1 < line_count(line_offsets(bf_source)) THEN "records" ELSE "flush"
       IN  \E output \in {record_output(bf_source, bf_i, bf_skip_invalid)}, ok \in BOOLEAN :
              /\ output = <<>> => ok
              /\ after(question_mark(ok, next))
              /\ bf_io_error' = IF ok THEN bf_io_error ELSE "write"
              /\ bf_temp' = IF ok /\ output # <<>> THEN bf_temp \o writeln(output[1].bytes) ELSE bf_temp
              /\ bf_written' = IF ok THEN bf_written \o output ELSE bf_written
    /\ bf_i' = bf_i + 1
    /\ UNCHANGED <<bf_source, bf_in_place, bf_skip_invalid, bf_original, bf_flushed, bf_renamed, not_bf>>

\* writer.flush()?
Flush ==
    /\ bf_pc = "flush"
    /\ \E ok \in BOOLEAN :
          /\ after(question_mark(ok, IF bf_in_place THEN "rename" ELSE "done"))
          /\ bf_io_error' = IF ok THEN bf_io_error ELSE "flush"
          /\ bf_flushed' = ok
    /\ UNCHANGED <<bf_source, bf_in_place, bf_skip_invalid, bf_i, bf_temp, bf_original,
                   bf_written, bf_renamed, not_bf>>

\* std::fs::rename(&temp_path, &output_path)?
Rename ==
    /\ bf_pc = "rename"
    /\ \E ok \in BOOLEAN :
          /\ after(IF ok THEN "done" ELSE "failed")
          /\ bf_io_error' = IF ok THEN bf_io_error ELSE "rename"
          /\ bf_renamed' = ok
          /\ bf_original' = IF ok THEN bf_temp ELSE bf_original
    /\ UNCHANGED <<bf_source, bf_in_place, bf_skip_invalid, bf_i, bf_temp, bf_written,
                   bf_flushed, not_bf>>

BfNext == CreateOutput \/ FixRecord \/ Flush \/ Rename

\* the records of the input file
bf_dataset == [bytes |-> bf_source, offsets |-> line_offsets(bf_source)]

\* whether record i may be left out of the output: only under --skip-invalid, and
\* only a record that fix_line skips or that cannot be handed to it at all
may_be_dropped(i) ==
    /\ bf_skip_invalid
    /\ \/ ~Utf8Valid(record_content(bf_dataset, i))
       \/ fix_line(record_content(bf_dataset, i), FALSE).kind = "Skipped"

\* C19: a run that ends well has written its lines in the order of the records,
\* one line for every record, except that with --skip-invalid a skipped record
\* has none; a skipped record that is kept is written with its original bytes.
C19_OneLinePerRecordInOrder ==
    (bf_pc = "done" /\ bf_result = "ok") =>
        /\ \A k \in 1..(Len(bf_written) - 1) : bf_written[k].index < bf_written[k + 1].index
        /\ \A i \in 0..(line_count(bf_dataset.offsets) - 1) :
              (\E k \in 1..Len(bf_written) : bf_written[k].index = i) <=> ~may_be_dropped(i)
        /\ \A k \in 1..Len(bf_written) :
              /\ \A j \in 1..Len(bf_written[k].bytes) : bf_written[k].bytes[j] # Newline
              /\ (Utf8Valid(record_content(bf_dataset, bf_written[k].index))
                  /\ fix_line(record_content(bf_dataset, bf_written[k].index), FALSE).kind = "Skipped")
                 => bf_written[k].bytes = record_content(bf_dataset, bf_written[k].index)

\* C20: the input file changes only by the rename, and the rename happens only
\* in place, after the loop has been through every record and the flush has
\* succeeded, with no file operation failed before it; once a write or the flush
\* has failed the run has ended with an error, there was no rename and the
\* input file holds its original bytes.
C20_RenameOnlyAfterFlush ==
    /\ bf_original # bf_source => bf_renamed
    /\ bf_renamed =>
          /\ bf_in_place
          /\ bf_i = line_count(line_offsets(bf_source))
          /\ bf_flushed
          /\ bf_io_error = "none"
          /\ bf_original = bf_temp
    /\ bf_pc = "rename" => (bf_flushed /\ bf_io_error = "none")
    /\ bf_io_error \in {"create", "write", "flush"} =>
          /\ bf_pc = "done"
          /\ bf_result = "err"
          /\ ~bf_renamed
          /\ bf_original = bf_source

\* C20 witness: a run in place wrote its first record, failed on the write of the
\* second and ended with an error.
C20_Witness ==
    /\ bf_in_place
    /\ bf_io_error = "write"
    /\ Len(bf_written) = 1
    /\ bf_result = "err"
    /\ bf_original = bf_source

(***************************************************************************)
(* A request task and its blocking worker (mcp.rs, tool_search_dataset and *)
(* tool_dedup_scan).  The handler is a future the server may drop at its   *)
(* .await (the connection closed); the JoinHandle of spawn_blocking is a   *)
(* temporary of that future.  Dropping a JoinHandle detaches the task, and *)
(* a closure given to spawn_blocking takes no cancellation.                *)
(***************************************************************************)
NotDropped == "not dropped"

TkRequests == {r \in RpcRequests({NoId, SomeId(1)}) : spawns_blocking(r)}

TkInit ==
    /\ tk_dataset \in {mcp_snapshot(src, "JSONL") : src \in RpcSources}
    /\ tk_req \in TkRequests
    /\ tk_request = "received"
    /\ tk_worker = "none"
    /\ tk_join = NoJoin
    /\ tk_resp = <<>>
    /\ tk_dropped_at = NotDropped

TkIdle ==
    /\ tk_dataset = from_raw_parts(<<>>, <<0>>, "JSONL")
    /\ tk_req = <<>>
    /\ tk_request = "idle"
    /\ tk_worker = "none"
    /\ tk_join = NoJoin
    /\ tk_resp = <<>>
    /\ tk_dropped_at = NotDropped

\* tokio::task::spawn_blocking(move || ...): the closure is queued on the pool
\* and the handler awaits its JoinHandle
SpawnBlocking ==
    /\ tk_request = "received"
    /\ tk_request' = "awaiting"
    /\ tk_worker' = "queued"
    /\ UNCHANGED <<tk_dataset, tk_req, tk_join, tk_resp, tk_dropped_at, not_tk>>

\* a thread of the blocking pool takes the closure; the pool never looks at the
\* JoinHandle
RunClosure ==
    /\ tk_worker = "queued"
    /\ tk_worker' = "running"
    /\ UNCHANGED <<tk_dataset, tk_req, tk_request, tk_join, tk_resp, tk_dropped_at, not_tk>>

\* search_dataset_impl or engine.scan ran over the dataset and returned
ReturnClosure ==
    /\ tk_worker = "running"
    /\ tk_worker' = "finished"
    /\ tk_join' = IF tk_req.tool = "search_dataset"
                  THEN Joined(search_closure(tk_dataset, tk_req))
                  ELSE Joined(dedup_closure(tk_dataset, tk_req))
    /\ UNCHANGED <<tk_dataset, tk_req, tk_request, tk_resp, tk_dropped_at, not_tk>>

\* the handler after .await of the JoinHandle
AwaitJoin ==
    /\ tk_request = "awaiting"
    /\ tk_worker = "finished"
    /\ tk_resp' = Append(tk_resp, joined_response(tk_req, tk_dataset, tk_join))
    /\ tk_request' = "responded"
    /\ UNCHANGED <<tk_dataset, tk_req, tk_worker, tk_join, tk_dropped_at, not_tk>>

\* the request task is dropped at its .await: the JoinHandle goes with it
DropRequest ==
    /\ tk_request = "awaiting"
    /\ tk_request' = "dropped"
    /\ tk_dropped_at' = tk_worker
    /\ UNCHANGED <<tk_dataset, tk_req, tk_worker, tk_join, tk_resp, not_tk>>

TkNext == SpawnBlocking \/ RunClosure \/ ReturnClosure \/ AwaitJoin \/ DropRequest

\* C27: when the request task of search_dataset or dedup_scan is dropped before
\* the join of its worker completes, the worker on the blocking pool is aborted:
\* it does not go on to run the scan to completion.
C27_DroppedRequestAbortsWorker ==
    (tk_request = "dropped" /\ tk_dropped_at \in {"queued", "running"})
    => tk_worker # "finished"

(***************************************************************************)
(* IncrementalStream (streaming.rs): start() loads the first row-group and *)
(* spawns a task for the others; the caller polls the two atomics and      *)
(* reads the list under the reader lock.  The atomics are Relaxed: a load  *)
(* may return an older value, never one older than the thread saw before.  *)
(***************************************************************************)
IncInit ==
    /\ inc_meta \in StMetas
    /\ inc_file_size \in StFileSizes
    /\ inc_pc = "start"
    /\ inc_bg = "none"
    /\ inc_i = 0
    /\ inc_lines = <<>>
    /\ inc_loaded = 0
    /\ inc_complete = FALSE
    /\ inc_appended = <<>>
    /\ inc_seen_loaded = 0
    /\ inc_seen_lines = <<>>

IncIdle ==
    /\ inc_meta = <<>>
    /\ inc_file_size = 0
    /\ inc_pc = "idle"
    /\ inc_bg = "none"
    /\ inc_i = 0
    /\ inc_lines = <<>>
    /\ inc_loaded = 0
    /\ inc_complete = FALSE
    /\ inc_appended = <<>>
    /\ inc_seen_loaded = 0
    /\ inc_seen_lines = <<>>

\* IncrementalStream::is_complete and loaded_count, read where the value is stored
is_complete == inc_complete

loaded_count == inc_loaded

\* lines.write().await.extend(new_lines)
extend(lines, new_lines) == lines \o new_lines

\* A mutant of the counter the task publishes: the row-group it fetches next.
loaded_after_next(i) == i + 2

\* loaded_bg.store(i + 1, Relaxed): the row-groups loaded once row-group i is
loaded_after(i) == i + 1

\* start() up to the first fetch: connect and read_metadata, each with ?
Connect ==
    /\ inc_pc = "start"
    /\ \E connected \in BOOLEAN, footer_read \in BOOLEAN :
          inc_pc' = IF ~connected \/ ~footer_read THEN "failed"
                    ELSE IF Len(inc_meta) > 0 THEN "fetch" ELSE "spawn"
    /\ UNCHANGED <<inc_meta, inc_file_size, inc_bg, inc_i, inc_lines, inc_loaded, inc_complete,
                   inc_appended, inc_seen_loaded, inc_seen_lines, not_inc>>

\* reader.fetch_row_group(&meta, 0).await? and the extend of the list
FetchFirst ==
    /\ inc_pc = "fetch"
    /\ \E range_ok \in BOOLEAN, read_ok \in BOOLEAN, full_ok \in BOOLEAN :
          \E fetched \in {fetch_row_group(inc_meta, inc_file_size, 0, range_ok, read_ok, full_ok)} :
             IF fetched.ok
             THEN /\ inc_lines' = extend(inc_lines, fetched.lines)
                  /\ inc_appended' = Append(inc_appended, 0)
                  /\ inc_pc' = "store"
             ELSE /\ inc_pc' = "failed"
                  /\ UNCHANGED <<inc_lines, inc_appended>>
    /\ UNCHANGED <<inc_meta, inc_file_size, inc_bg, inc_i, inc_loaded, inc_complete,
                   inc_seen_loaded, inc_seen_lines, not_inc>>

\* loaded_rgs.store(1, Relaxed)
StoreFirst ==
    /\ inc_pc = "store"
    /\ inc_loaded' = loaded_after(0)
    /\ inc_pc' = "spawn"
    /\ UNCHANGED <<inc_meta, inc_file_size, inc_bg, inc_i, inc_lines, inc_complete,
                   inc_appended, inc_seen_loaded, inc_seen_lines, not_inc>>

\* if total_rgs > 1 { tokio::spawn(...) } else { complete.store(true) }; Ok(Self)
Spawn ==
    /\ inc_pc = "spawn"
    /\ IF Len(inc_meta) > 1
       THEN inc_bg' = "fetch" /\ inc_i' = 1 /\ UNCHANGED inc_complete
       ELSE inc_complete' = TRUE /\ UNCHANGED <<inc_bg, inc_i>>
    /\ inc_pc' = "returned"
    /\ UNCHANGED <<inc_meta, inc_file_size, inc_lines, inc_loaded, inc_appended,
                   inc_seen_loaded, inc_seen_lines, not_inc>>

\* the task: reader.fetch_row_group(&meta, i).await; Ok extends the list under
\* the writer lock, Err leaves the loop
BackgroundFetch ==
    /\ inc_bg = "fetch"
    /\ \E range_ok \in BOOLEAN, read_ok \in BOOLEAN, full_ok \in BOOLEAN :
          \E fetched \in {fetch_row_group(inc_meta, inc_file_size, inc_i, range_ok, read_ok, full_ok)} :
             IF fetched.ok
             THEN /\ inc_lines' = extend(inc_lines, fetched.lines)
                  /\ inc_appended' = Append(inc_appended, inc_i)
                  /\ inc_bg' = "store"
             ELSE /\ inc_bg' = "finish"
                  /\ UNCHANGED <<inc_lines, inc_appended>>
    /\ UNCHANGED <<inc_meta, inc_file_size, inc_pc, inc_i, inc_loaded, inc_complete,
                   inc_seen_loaded, inc_seen_lines, not_inc>>

\* the task: loaded_bg.store(i + 1, Relaxed), and the next turn of the loop
BackgroundStore ==
    /\ inc_bg = "store"
    /\ inc_loaded' = loaded_after(inc_i)
    /\ inc_i' = inc_i + 1
    /\ inc_bg' = IF inc_i + 1 < Len(inc_meta) THEN "fetch" ELSE "finish"
    /\ UNCHANGED <<inc_meta, inc_file_size, inc_pc, inc_lines, inc_complete, inc_appended,
                   inc_seen_loaded, inc_seen_lines, not_inc>>

\* the task after its loop: complete_bg.store(true, Relaxed)
BackgroundFinish ==
    /\ inc_bg = "finish"
    /\ inc_complete' = TRUE
    /\ inc_bg' = "done"
    /\ UNCHANGED <<inc_meta, inc_file_size, inc_pc, inc_i, inc_lines, inc_loaded,
                   inc_appended, inc_seen_loaded, inc_seen_lines, not_inc>>

\* the caller polls: loaded_count(), then the list under the reader lock
PollReader ==
    /\ inc_pc = "returned"
    /\ inc_seen_loaded' \in inc_seen_loaded..loaded_count
    /\ inc_seen_lines' = inc_lines
    /\ UNCHANGED <<inc_meta, inc_file_size, inc_pc, inc_bg, inc_i, inc_lines, inc_loaded,
                   inc_complete, inc_appended, not_inc>>

IncNext ==
    \/ Connect \/ FetchFirst \/ StoreFirst \/ Spawn
    \/ BackgroundFetch \/ BackgroundStore \/ BackgroundFinish \/ PollReader

\* the lines of the list, as a set
listed == {inc_lines[k] : k \in 1..Len(inc_lines)}

\* C28: whenever is_complete() returns true all row-groups have been loaded:
\* loaded_count() is the number of row-groups of the file and the list holds the
\* records of every row-group, also when a background fetch failed.
C28_CompleteMeansAllLoaded ==
    is_complete =>
        /\ loaded_count = Len(inc_meta)
        /\ \A g \in 0..(Len(inc_meta) - 1) :
              \A j \in 1..inc_meta[g + 1].num_rows : row_line(g, j - 1) \in listed

\* C29: under every interleaving of the background task with the polling reader
\* loaded_count() never decreases and never exceeds the number of row-groups
\* whose records are already in the list, and the list is only appended to; so
\* is what the reader sees of them.
C29_CounterFollowsTheList ==
    /\ [](loaded_count <= Len(inc_appended))
    /\ [](inc_seen_loaded <= Len(inc_appended))
    /\ [][/\ loaded_count' >= loaded_count
          /\ Len(inc_lines') >= Len(inc_lines)
          /\ Slice(inc_lines', 0, Len(inc_lines)) = inc_lines
          /\ inc_seen_loaded' >= inc_seen_loaded
          /\ Len(inc_seen_lines') >= Len(inc_seen_lines)
          /\ Slice(inc_seen_lines', 0, Len(inc_seen_lines)) = inc_seen_lines]_vars

\* the reader read the list after the task appended the second row-group and
\* before the task published the counter for it
C29_Witness ==
    /\ inc_bg = "store"
    /\ Len(inc_appended) = 2
    /\ loaded_count = 1
    /\ inc_seen_loaded = 1
    /\ inc_seen_lines = inc_lines

(***************************************************************************)
(* Navigation: apply_tui_command of main.rs over the App of app.rs, with   *)
(* arguments over the whole of usize.  `a + b` on usize panics in a build  *)
(* with overflow checks and wraps around in one without.                   *)
(***************************************************************************)
NavArgs == {0, 1, 2, CbLineCount, UsizeMax - 1, UsizeMax}

NavCommands ==
    {TuiCommand(kind, n) : kind \in {"JumpToLine", "ScrollDown", "ScrollUp"}, n \in NavArgs}
    \cup {TuiCommand("GotoTop", 0), TuiCommand("GotoBottom", 0)}

NavHeights == {TerminalHeight, ViewportDefault + Borders}

NavInit ==
    /\ nav_app = new_app
    /\ nav_overflow_checks \in BOOLEAN
    /\ nav_cmd = TuiCommand("none", 0)
    /\ nav_panicked = FALSE
    /\ nav_wrapped = FALSE

NavIdle ==
    /\ nav_app = new_app
    /\ nav_overflow_checks = FALSE
    /\ nav_cmd = TuiCommand("idle", 0)
    /\ nav_panicked = FALSE
    /\ nav_wrapped = FALSE

\* the additions of a command that overflow: those of scroll_down, in its order
scroll_overflows(app, cmd) ==
    cmd.kind = "ScrollDown" /\ add_overflows(app.scroll, cmd.arg)

selected_overflows(app, cmd) ==
    cmd.kind = "ScrollDown" /\ add_overflows(app.selected_line, cmd.arg)

\* the App a panic of scroll_down leaves behind: the assignments made before it
unwound(app, cmd) ==
    IF scroll_overflows(app, cmd) THEN app
    ELSE [app EXCEPT !.scroll = scroll_down(app, cmd.arg).scroll]

\* apply_tui_command(&mut app, cmd) for a navigation command
Navigate ==
    /\ ~nav_panicked
    /\ \E cmd \in NavCommands :
          /\ nav_cmd' = cmd
          /\ IF (scroll_overflows(nav_app, cmd) \/ selected_overflows(nav_app, cmd))
                /\ nav_overflow_checks
             THEN /\ nav_panicked' = TRUE
                  /\ nav_app' = unwound(nav_app, cmd)
                  /\ UNCHANGED nav_wrapped
             ELSE /\ nav_app' = apply_tui_command(nav_app, cmd)
                  /\ nav_wrapped' = (nav_wrapped \/ scroll_overflows(nav_app, cmd)
                                     \/ selected_overflows(nav_app, cmd))
                  /\ UNCHANGED nav_panicked
    /\ UNCHANGED <<nav_overflow_checks, not_nav>>

\* App::set_viewport_height, as every frame calls it
Resize ==
    /\ ~nav_panicked
    /\ \E height \in NavHeights :
          nav_app' = [nav_app EXCEPT !.viewport_height = saturating_sub(height, Borders)]
    /\ UNCHANGED <<nav_overflow_checks, nav_cmd, nav_panicked, nav_wrapped, not_nav>>

NavNext == Navigate \/ Resize

\* C30: after any sequence of navigation commands (JumpToLine(n), ScrollDown(n),
\* ScrollUp(n), GotoTop, GotoBottom, for any n) selected_line is a valid record
\* index, selected_line <= line_count - 1, and no command panics or overflows.
C30_NavigationStaysInRange ==
    /\ nav_app.selected_line <= CbLineCount - 1
    /\ ~nav_panicked
    /\ ~nav_wrapped

(***************************************************************************)
(* The specifications: each runs one subsystem and leaves the others idle. *)
(***************************************************************************)
InitData == DsInit /\ DdIdle /\ ExIdle /\ FxIdle /\ RpcIdle /\ StIdle /\ CbIdle /\ BfIdle /\ TkIdle /\ IncIdle /\ NavIdle
SpecData == InitData /\ [][DsNext]_vars

InitDedup == DdInit /\ DsIdle /\ ExIdle /\ FxIdle /\ RpcIdle /\ StIdle /\ CbIdle /\ BfIdle /\ TkIdle /\ IncIdle /\ NavIdle
SpecDedup == InitDedup /\ [][DdNext]_vars

InitExtract == ExInit /\ DsIdle /\ DdIdle /\ FxIdle /\ RpcIdle /\ StIdle /\ CbIdle /\ BfIdle /\ TkIdle /\ IncIdle /\ NavIdle
SpecExtract == InitExtract /\ [][ExNext]_vars

InitRepair == FxInit /\ DsIdle /\ DdIdle /\ ExIdle /\ RpcIdle /\ StIdle /\ CbIdle /\ BfIdle /\ TkIdle /\ IncIdle /\ NavIdle
SpecRepair == InitRepair /\ [][FxNext]_vars

InitRpc == RpcInit /\ DsIdle /\ DdIdle /\ ExIdle /\ FxIdle /\ StIdle /\ CbIdle /\ BfIdle /\ TkIdle /\ IncIdle /\ NavIdle
SpecRpc == InitRpc /\ [][RpcNext]_vars

InitStream == StInit /\ DsIdle /\ DdIdle /\ ExIdle /\ FxIdle /\ RpcIdle /\ CbIdle /\ BfIdle /\ TkIdle /\ IncIdle /\ NavIdle
SpecStream == InitStream /\ [][StNext]_vars

InitBus == CbInit /\ DsIdle /\ DdIdle /\ ExIdle /\ FxIdle /\ RpcIdle /\ StIdle /\ BfIdle /\ TkIdle /\ IncIdle /\ NavIdle
\* the loop of the front-end keeps running; the producers send when they like
SpecBus == InitBus /\ [][CbNext]_vars /\ WF_vars(CbLoop)

InitBatch == BfInit /\ DsIdle /\ DdIdle /\ ExIdle /\ FxIdle /\ RpcIdle /\ StIdle /\ CbIdle /\ TkIdle /\ IncIdle /\ NavIdle
SpecBatch == InitBatch /\ [][BfNext]_vars

InitCancel == TkInit /\ DsIdle /\ DdIdle /\ ExIdle /\ FxIdle /\ RpcIdle /\ StIdle /\ CbIdle /\ BfIdle /\ IncIdle /\ NavIdle
SpecCancel == InitCancel /\ [][TkNext]_vars

InitIncremental == IncInit /\ DsIdle /\ DdIdle /\ ExIdle /\ FxIdle /\ RpcIdle /\ StIdle /\ CbIdle /\ BfIdle /\ TkIdle /\ NavIdle
SpecIncremental == InitIncremental /\ [][IncNext]_vars

InitNavigation == NavInit /\ DsIdle /\ DdIdle /\ ExIdle /\ FxIdle /\ RpcIdle /\ StIdle /\ CbIdle /\ BfIdle /\ TkIdle /\ IncIdle
SpecNavigation == InitNavigation /\ [][NavNext]_vars

====
